---- MODULE Spec2Model ----
(***************************************************************************)
(* A model of the invoice generator (src/service/invoice_generator.py).   *)
(*                                                                         *)
(* Python values are modelled as tagged records.  A Python str is a       *)
(* sequence of one-character strings (number_to_words output is a         *)
(* sequence of tokens: words and single spaces).  A Python float is a     *)
(* record [k, v]: k = "fin" with v the value in units of 1/Scale (an      *)
(* exact decimal with FracDigits fraction digits), or one of the special  *)
(* values nan, inf, ninf.  An operation that can raise returns a record   *)
(* [exc, val] whose exc names the exception that escapes ("none" when it  *)
(* returns normally).                                                      *)
(***************************************************************************)
EXTENDS Integers, Sequences, FiniteSets, TLC

VARIABLES
    pc,                 \* the operation, or the step of generate_invoice, to run next
    args,               \* the arguments of the call
    ret,                \* what the call returned or raised
    transformed_data,   \* generate_invoice: the record _transform_input returned
    story,              \* generate_invoice: the sections built so far
    generator           \* the InvoiceGenerator object, once constructed

vars == <<pc, args, ret, transformed_data, story, generator>>

(***************************************************************************)
(* Bounds of the model                                                     *)
(***************************************************************************)
FracDigits == 3
MaxStrLen == 4
MaxInt == 3

RECURSIVE Pow10(_)
Pow10(k) == IF k = 0 THEN 1 ELSE 10 * Pow10(k - 1)

Scale == Pow10(FracDigits)

(***************************************************************************)
(* Python floats                                                           *)
(***************************************************************************)
Fin(v) == [k |-> "fin", v |-> v]
NaN == [k |-> "nan", v |-> 0]
PosInf == [k |-> "inf", v |-> 0]
NegInf == [k |-> "ninf", v |-> 0]

IsFin(f) == f.k = "fin"

(***************************************************************************)
(* Python values that can arrive in a JSON record                          *)
(***************************************************************************)
PyNone == [t |-> "None", s |-> <<>>, n |-> 0, f |-> Fin(0)]
PyStr(s) == [t |-> "str", s |-> s, n |-> 0, f |-> Fin(0)]
PyInt(n) == [t |-> "int", s |-> <<>>, n |-> n, f |-> Fin(0)]
PyFloat(f) == [t |-> "float", s |-> <<>>, n |-> 0, f |-> f]
\* an int beyond the range of a float, such as 10**400
PyHugeInt == [t |-> "hugeint", s |-> <<>>, n |-> 0, f |-> Fin(0)]
\* a JSON array: a value that is neither a str nor a number
PyList == [t |-> "list", s |-> <<>>, n |-> 0, f |-> Fin(0)]

(***************************************************************************)
(* Results of calls                                                        *)
(***************************************************************************)
Ok(v) == [exc |-> "none", val |-> v]
Raise(e) == [exc |-> e, val |-> Fin(0)]

(***************************************************************************)
(* float(str): Python's parser for the text of a float                     *)
(***************************************************************************)
Digits == {"0", "1", "2", "3", "4", "5", "6", "7", "8", "9"}

DigitVal(c) ==
    CASE c = "0" -> 0 [] c = "1" -> 1 [] c = "2" -> 2 [] c = "3" -> 3
      [] c = "4" -> 4 [] c = "5" -> 5 [] c = "6" -> 6 [] c = "7" -> 7
      [] c = "8" -> 8 [] c = "9" -> 9

RECURSIVE LStrip(_)
LStrip(s) == IF s # <<>> /\ Head(s) = " " THEN LStrip(Tail(s)) ELSE s

RECURSIVE RStrip(_)
RStrip(s) ==
    IF s # <<>> /\ s[Len(s)] = " " THEN RStrip(SubSeq(s, 1, Len(s) - 1)) ELSE s

Strip(s) == RStrip(LStrip(s))

AllDigits(s) == \A i \in 1..Len(s) : s[i] \in Digits

RECURSIVE DigitsValue(_)
DigitsValue(s) ==
    IF s = <<>> THEN 0 ELSE 10 * DigitsValue(SubSeq(s, 1, Len(s) - 1)) + DigitVal(s[Len(s)])

DotPositions(s) == {i \in 1..Len(s) : s[i] = "."}

IntPart(s) ==
    IF DotPositions(s) = {} THEN s
    ELSE SubSeq(s, 1, (CHOOSE i \in DotPositions(s) : TRUE) - 1)

FracPart(s) ==
    IF DotPositions(s) = {} THEN <<>>
    ELSE SubSeq(s, (CHOOSE i \in DotPositions(s) : TRUE) + 1, Len(s))

\* digits [ "." digits ] with at least one digit
IsDecimal(s) ==
    /\ Cardinality(DotPositions(s)) <= 1
    /\ AllDigits(IntPart(s))
    /\ AllDigits(FracPart(s))
    /\ Len(IntPart(s)) + Len(FracPart(s)) >= 1

\* the fraction digits of a decimal text fit the resolution of the model
Representable(s) == Len(FracPart(s)) <= FracDigits

DecimalValue(s) ==
    DigitsValue(IntPart(s)) * Scale
        + DigitsValue(FracPart(s)) * Pow10(FracDigits - Len(FracPart(s)))

HasSign(s) == s # <<>> /\ Head(s) \in {"-", "+"}

Unsigned(s) == IF HasSign(s) THEN Tail(s) ELSE s

Negative(s) == s # <<>> /\ Head(s) = "-"

\* float(s) for a str s: the float, or ValueError
ParseFloat(s) ==
    LET body == Unsigned(Strip(s))
        neg == Negative(Strip(s))
    IN  IF body = <<"n", "a", "n">> THEN Ok(NaN)
        ELSE IF body = <<"i", "n", "f">> THEN Ok(IF neg THEN NegInf ELSE PosInf)
        ELSE IF IsDecimal(body)
             THEN Ok(Fin(IF neg THEN 0 - DecimalValue(body) ELSE DecimalValue(body)))
             ELSE Raise("ValueError")

\* value.replace(',', '')
RemoveCommas(s) == SelectSeq(s, LAMBDA c : c # ",")

\* float(value) for a value that is not a str
FloatOfNumber(value) ==
    CASE value.t = "int" -> Ok(Fin(value.n * Scale))
      [] value.t = "float" -> Ok(value.f)
      [] value.t = "hugeint" -> Raise("OverflowError")
      [] OTHER -> Raise("TypeError")

(***************************************************************************)
(* safe_float                                                              *)
(***************************************************************************)
\* the except clause of safe_float: ValueError and AttributeError are caught
CaughtBySafeFloat == {"ValueError", "AttributeError"}

\* safe_float without value.replace(',', ''): the text goes to float() as it is
safe_float_KeepCommas(value, default) ==
    IF value.t = "None" \/ (value.t = "str" /\ value.s = <<>>) THEN Ok(default)
    ELSE LET r == IF value.t = "str" THEN ParseFloat(value.s)
                  ELSE FloatOfNumber(value)
         IN  IF r.exc \in CaughtBySafeFloat THEN Ok(default) ELSE r

safe_float(value, default) ==
    IF value.t = "None" \/ (value.t = "str" /\ value.s = <<>>) THEN Ok(default)
    ELSE LET r == IF value.t = "str" THEN ParseFloat(RemoveCommas(value.s))
                  ELSE FloatOfNumber(value)
         IN  IF r.exc \in CaughtBySafeFloat THEN Ok(default) ELSE r

(***************************************************************************)
(* Inputs of safe_float                                                    *)
(***************************************************************************)
Chars == {"1", "2", "5", ",", ".", "-", " ", "a"}

SeqsUpTo(S, n) == UNION {[1..k -> S] : k \in 0..n}

SpecialStrings ==
    { <<"n", "a", "n">>, <<"i", "n", "f">>, <<"-", "i", "n", "f">>,
      <<"a", "b", "c">>, <<"2", "5", ",", "4", "0", "1">> }

StrInputs ==
    {s \in SeqsUpTo(Chars, MaxStrLen) \cup SpecialStrings :
        Representable(Unsigned(Strip(RemoveCommas(s))))}

FloatInputs == {Fin(0), Fin(Scale \div 2), Fin(0 - 2 * Scale - Scale \div 4), NaN, PosInf}

ValueInputs ==
    {PyNone, PyHugeInt, PyList}
        \cup {PyStr(s) : s \in StrInputs}
        \cup {PyInt(n) : n \in (0 - MaxInt)..MaxInt}
        \cup {PyFloat(f) : f \in FloatInputs}

DefaultInputs == {Fin(0), Fin(9 * Scale), NaN}

InitSafeFloat ==
    /\ pc = "safe_float"
    /\ args \in [value : ValueInputs, default : DefaultInputs]
    /\ ret = Ok(Fin(0))
    /\ transformed_data = PyNone
    /\ story = <<>>
    /\ generator = PyNone

CallSafeFloat ==
    /\ pc = "safe_float"
    /\ ret' = safe_float(args.value, args.default)
    /\ pc' = "done"
    /\ UNCHANGED <<args, transformed_data, story, generator>>

SpecSafeFloat == InitSafeFloat /\ [][CallSafeFloat]_vars

(***************************************************************************)
(* Claims about safe_float                                                 *)
(***************************************************************************)
\* C1: safe_float never raises: for every value and every default the call
\* returns the parsed float or the default, and no exception escapes.
C1_NeverRaises ==
    pc = "done" =>
        /\ ret.exc = "none"
        /\ \/ ret.val = args.default
           \/ /\ args.value.t = "str"
              /\ ret = ParseFloat(RemoveCommas(args.value.s))
           \/ /\ args.value.t \in {"int", "float"}
              /\ ret = FloatOfNumber(args.value)

\* the digits of a text, its ',' skipped: the number a reader takes it for
RECURSIVE CommaFree(_)
CommaFree(s) ==
    IF s = <<>> THEN <<>>
    ELSE IF Head(s) = "," THEN CommaFree(Tail(s))
    ELSE <<Head(s)>> \o CommaFree(Tail(s))

\* what C2 says of None, of a str and of a float
C2_StrNoneFloat ==
    /\ args.value.t = "None" => ret = Ok(args.default)
    /\ args.value = PyStr(<<>>) => ret = Ok(args.default)
    /\ args.value = PyStr(<<"a", "b", "c">>) => ret = Ok(args.default)
    /\ args.value = PyStr(<<"2", "5", ",", "4", "0", "1">>) => ret = Ok(Fin(25401 * Scale))
    /\ (args.value.t = "str" /\ args.value.s # <<>>) =>
            ret = (IF ParseFloat(CommaFree(args.value.s)).exc = "none"
                   THEN ParseFloat(CommaFree(args.value.s))
                   ELSE Ok(args.default))
    /\ args.value.t = "float" => ret = Ok(args.value.f)

ones == <<"One", "Two", "Three", "Four", "Five", "Six", "Seven", "Eight", "Nine">>
tens == <<"Twenty", "Thirty", "Forty", "Fifty", "Sixty", "Seventy", "Eighty", "Ninety">>
teens == <<"Ten", "Eleven", "Twelve", "Thirteen", "Fourteen", "Fifteen",
           "Sixteen", "Seventeen", "Eighteen", "Nineteen">>

\* ones[i] of the source: ones[0] is '', and a negative index counts from
\* the end of the ten-element list (ones[-10] is ones[0])
OnesAt(i) ==
    LET j == IF i < 0 THEN i + 10 ELSE i
    IN  IF j = 0 THEN <<>> ELSE <<ones[j]>>

\* tens[i] of the source: tens[0] and tens[1] are ''
TensAt(i) == IF i < 2 THEN <<>> ELSE <<tens[i - 1]>>

TeensAt(i) == <<teens[i + 1]>>

\* an index a ten-element list has
InList(i) == i >= 0 - 10 /\ i <= 9

\* convert_below_thousand with the `if n % 10 != 0` test of its tens branch
\* dropped: ' ' + ones[n % 10] is appended also when ones[n % 10] is ''
RECURSIVE convert_below_thousand_AlwaysOnes(_)
convert_below_thousand_AlwaysOnes(n) ==
    IF n = 0 THEN <<>>
    ELSE IF n < 10 THEN OnesAt(n)
    ELSE IF n < 20 THEN TeensAt(n - 10)
    ELSE IF n < 100 THEN TensAt(n \div 10) \o <<" ">> \o OnesAt(n % 10)
    ELSE LET hundreds == OnesAt(n \div 100) \o <<" ", "Hundred">>
             remainder == convert_below_thousand_AlwaysOnes(n % 100)
         IN  hundreds \o (IF remainder # <<>> THEN <<" ">> \o remainder ELSE <<>>)

RECURSIVE convert_below_thousand(_)
convert_below_thousand(n) ==
    IF n = 0 THEN <<>>
    ELSE IF n < 10 THEN OnesAt(n)
    ELSE IF n < 20 THEN TeensAt(n - 10)
    ELSE IF n < 100
         THEN TensAt(n \div 10) \o (IF n % 10 # 0 THEN <<" ">> \o OnesAt(n % 10) ELSE <<>>)
    ELSE LET hundreds == OnesAt(n \div 100) \o <<" ", "Hundred">>
             remainder == convert_below_thousand(n % 100)
         IN  hundreds \o (IF remainder # <<>> THEN <<" ">> \o remainder ELSE <<>>)

\* the list lookups of convert_below_thousand(n) stay inside the lists
ConvertInRange(n) ==
    IF n < 10 THEN InList(n) ELSE IF n < 100 THEN TRUE ELSE InList(n \div 100)

\* ' '.join(result)
RECURSIVE Join(_)
Join(result) ==
    IF result = <<>> THEN <<>>
    ELSE IF Len(result) = 1 THEN result[1]
    ELSE result[1] \o <<" ">> \o Join(Tail(result))

crore(num) == num \div 10000000
\* lakh without the `num %= 10000000` before it
lakh_NoRemainder(num) == num \div 100000

lakh(num) == (num % 10000000) \div 100000
thousand(num) == (num % 100000) \div 1000
ones_group(num) == num % 1000

\* the list `result` of number_to_words, before the join
result_of(num) ==
    (IF crore(num) # 0
        THEN <<convert_below_thousand(crore(num)) \o <<" ", "Crore">>>> ELSE <<>>)
    \o (IF lakh(num) # 0
        THEN <<convert_below_thousand(lakh(num)) \o <<" ", "Lakh">>>> ELSE <<>>)
    \o (IF thousand(num) # 0
        THEN <<convert_below_thousand(thousand(num)) \o <<" ", "Thousand">>>> ELSE <<>>)
    \o (IF ones_group(num) # 0
        THEN <<convert_below_thousand(ones_group(num))>> ELSE <<>>)

\* number_to_words without its `if num == 0` case
number_to_words_NoZero(num) ==
    IF ~ConvertInRange(crore(num)) THEN Raise("IndexError")
    ELSE Ok(Join(result_of(num)))

number_to_words(num) ==
    IF num = 0 THEN Ok(<<"Zero">>)
    ELSE IF ~ConvertInRange(crore(num)) THEN Raise("IndexError")
    ELSE Ok(Join(result_of(num)))

(***************************************************************************)
(* Inputs of number_to_words: every low part 0..MaxLow under each of the  *)
(* sampled crore, lakh and thousand groups                                 *)
(***************************************************************************)
MaxLow == 999

CroreInputs == {0, 1, 9}
LakhInputs == {0, 1, 10, 99}
ThousandInputs == {0, 1, 20, 29, 99}

NumInputs ==
    {c * 10000000 + l * 100000 + th * 1000 + low :
        c \in CroreInputs, l \in LakhInputs, th \in ThousandInputs, low \in 0..MaxLow}

InitWords ==
    /\ pc = "number_to_words"
    /\ args \in [num : NumInputs]
    /\ ret = Ok(<<>>)
    /\ transformed_data = PyNone
    /\ story = <<>>
    /\ generator = PyNone

CallNumberToWords ==
    /\ pc = "number_to_words"
    /\ ret' = number_to_words(args.num)
    /\ pc' = "done"
    /\ UNCHANGED <<args, transformed_data, story, generator>>

SpecWords == InitWords /\ [][CallNumberToWords]_vars

(***************************************************************************)
(* Claims about number_to_words                                            *)
(***************************************************************************)
\* the range of number_to_words the claims are about
Supported(n) == n >= 1 /\ n <= 99999999

\* a words-to-number reference, written without the tables of the model
WordValue(w) ==
    CASE w = "One" -> 1 [] w = "Two" -> 2 [] w = "Three" -> 3 [] w = "Four" -> 4
      [] w = "Five" -> 5 [] w = "Six" -> 6 [] w = "Seven" -> 7 [] w = "Eight" -> 8
      [] w = "Nine" -> 9 [] w = "Ten" -> 10 [] w = "Eleven" -> 11 [] w = "Twelve" -> 12
      [] w = "Thirteen" -> 13 [] w = "Fourteen" -> 14 [] w = "Fifteen" -> 15
      [] w = "Sixteen" -> 16 [] w = "Seventeen" -> 17 [] w = "Eighteen" -> 18
      [] w = "Nineteen" -> 19 [] w = "Twenty" -> 20 [] w = "Thirty" -> 30
      [] w = "Forty" -> 40 [] w = "Fifty" -> 50 [] w = "Sixty" -> 60
      [] w = "Seventy" -> 70 [] w = "Eighty" -> 80 [] w = "Ninety" -> 90
      [] OTHER -> 0

RECURSIVE WordsToNumber(_, _, _)
WordsToNumber(tokens, group, total) ==
    IF tokens = <<>> THEN total + group
    ELSE LET w == Head(tokens)
             rest == Tail(tokens)
         IN  CASE w = " " -> WordsToNumber(rest, group, total)
               [] w = "Hundred" -> WordsToNumber(rest, group * 100, total)
               [] w = "Crore" -> WordsToNumber(rest, 0, total + group * 10000000)
               [] w = "Lakh" -> WordsToNumber(rest, 0, total + group * 100000)
               [] w = "Thousand" -> WordsToNumber(rest, 0, total + group * 1000)
               [] OTHER -> WordsToNumber(rest, group + WordValue(w), total)

\* C3: for every n in [1, 99999999] the words-to-number reference reads
\* number_to_words(n) back as n.
C3_RoundTrip ==
    (pc = "done" /\ Supported(args.num)) =>
        /\ ret.exc = "none"
        /\ WordsToNumber(ret.val, 0, 0) = args.num

\* C3 witness: 99999999 has been converted, every group non-zero, and reads back
C3_Witness ==
    /\ pc = "done"
    /\ args.num = 99999999
    /\ ret.exc = "none"
    /\ Len(ret.val) > 20
    /\ WordsToNumber(ret.val, 0, 0) = 99999999

\* C4: number_to_words gives "Zero" for 0, "Twenty Nine Thousand Nine Hundred
\* Seventy Two" for 29972, "Ten Lakh" for 1000000 and "One Crore" for 10000000.
C4_Examples ==
    pc = "done" =>
        /\ args.num = 0 => ret = Ok(<<"Zero">>)
        /\ args.num = 29972 =>
              ret = Ok(<<"Twenty", " ", "Nine", " ", "Thousand", " ", "Nine", " ",
                         "Hundred", " ", "Seventy", " ", "Two">>)
        /\ args.num = 1000000 => ret = Ok(<<"Ten", " ", "Lakh">>)
        /\ args.num = 10000000 => ret = Ok(<<"One", " ", "Crore">>)

\* C4 witness: 0 has been converted to "Zero"
C4_Witness ==
    /\ pc = "done"
    /\ args.num = 0
    /\ ret = Ok(<<"Zero">>)

Magnitudes == {"Crore", "Lakh", "Thousand"}

Count(out, w) == Cardinality({i \in 1..Len(out) : out[i] = w})

\* words at the odd places, one space at each even place, a word last
WellSpaced(out) ==
    /\ Len(out) % 2 = 1
    /\ \A i \in 1..Len(out) :
          IF i % 2 = 1 THEN out[i] \notin {" ", ""} ELSE out[i] = " "

\* the magnitude word w closes a segment exactly when its group is not zero
SegmentFor(out, w, g) ==
    /\ Count(out, w) = (IF g # 0 THEN 1 ELSE 0)
    /\ \A i \in 1..Len(out) :
          out[i] = w => (i >= 3 /\ out[i - 2] \notin Magnitudes)

\* "Crore" comes before "Lakh", and both before "Thousand"
InOrder(out) ==
    \A i, j \in 1..Len(out) :
        /\ (out[i] = "Crore" /\ out[j] \in {"Lakh", "Thousand"}) => i < j
        /\ (out[i] = "Lakh" /\ out[j] = "Thousand") => i < j

\* C5: for n >= 1 in the supported range the output holds one segment per
\* non-zero group and none for a zero group, in the order crore, lakh,
\* thousand, ones; "Crore", "Lakh", "Thousand" appear at most once; words are
\* separated by exactly one space, none leading, trailing or doubled, and no
\* word is empty.
C5_Segments ==
    (pc = "done" /\ Supported(args.num)) =>
        /\ ret.exc = "none"
        /\ WellSpaced(ret.val)
        /\ SegmentFor(ret.val, "Crore", args.num \div 10000000)
        /\ SegmentFor(ret.val, "Lakh", (args.num \div 100000) % 100)
        /\ SegmentFor(ret.val, "Thousand", (args.num \div 1000) % 100)
        /\ InOrder(ret.val)
        /\ (args.num % 1000 # 0) <=> (ret.val[Len(ret.val)] \notin Magnitudes)

\* C5 witness: a number with a zero lakh group and a zero ones group has been
\* converted: two segments, crore then thousand
C5_Witness ==
    /\ pc = "done"
    /\ args.num = 10020000
    /\ ret = Ok(<<"One", " ", "Crore", " ", "Twenty", " ", "Thousand">>)

(***************************************************************************)
(* Rounding and formatting of floats.  A float holds a decimal text only  *)
(* up to a binary error; where a result depends on it (a decimal tie) the *)
(* sign of that error is an input: err = 0 when the float holds the       *)
(* decimal exactly, 1 when it lies just above it, -1 when just below.     *)
(***************************************************************************)
Abs(x) == IF x < 0 THEN 0 - x ELSE x

\* rounding with a tie always going up, as round-half-up does
RoundTo_HalfUp(v, unit, err) ==
    IF 2 * (v % unit) < unit THEN v \div unit ELSE v \div unit + 1

\* v (in units of 1/Scale) to the nearest multiple of unit, counted in
\* units; a tie goes to the even count when the float is exact (Python
\* rounds half to even), else to the side the float lies on
RoundTo(v, unit, err) ==
    LET q == v \div unit
        r == v % unit
    IN  IF 2 * r < unit THEN q
        ELSE IF 2 * r > unit THEN q + 1
        ELSE IF err > 0 THEN q + 1
        ELSE IF err < 0 THEN q
        ELSE IF q % 2 = 0 THEN q ELSE q + 1

\* a float holds v / Scale exactly when the fraction is a multiple of 2^-k
RECURSIVE Pow5(_)
Pow5(k) == IF k = 0 THEN 1 ELSE 5 * Pow5(k - 1)

ExactBinary(v) == v % Pow5(FracDigits) = 0

\* a finite float together with the sign of its binary error
FinErr(v, e) == [k |-> "fin", v |-> v, e |-> e]

DigitChar(d) ==
    CASE d = 0 -> "0" [] d = 1 -> "1" [] d = 2 -> "2" [] d = 3 -> "3" [] d = 4 -> "4"
      [] d = 5 -> "5" [] d = 6 -> "6" [] d = 7 -> "7" [] d = 8 -> "8" [] d = 9 -> "9"

\* str(n) for an int n >= 0
RECURSIVE NatToStr(_)
NatToStr(n) == IF n < 10 THEN <<DigitChar(n)>> ELSE NatToStr(n \div 10) \o <<DigitChar(n % 10)>>

\* str(n) for an int
IntToStr(n) == IF n < 0 THEN <<"-">> \o NatToStr(0 - n) ELSE NatToStr(n)

\* f"{x:.2f}" for the finite float of decimal v and binary error err
Fixed2(v, err) ==
    LET h == RoundTo(Abs(v), Scale \div 100, IF v < 0 THEN 0 - err ELSE err)
    IN  (IF v < 0 THEN <<"-">> ELSE <<>>)
            \o NatToStr(h \div 100) \o <<".">>
            \o <<DigitChar((h % 100) \div 10), DigitChar(h % 10)>>

\* f"{x:.2f}" for a float
FormatFixed2(x) ==
    CASE x.k = "nan" -> <<"n", "a", "n">>
      [] x.k = "inf" -> <<"i", "n", "f">>
      [] x.k = "ninf" -> <<"-", "i", "n", "f">>
      [] OTHER -> Fixed2(x.v, x.e)

\* int(x) for a finite float: truncation toward zero
IntOfFin(v) == IF v < 0 THEN 0 - ((0 - v) \div Scale) ELSE v \div Scale

\* amount % 1 != 0: nan % 1 and inf % 1 are nan, and nan != 0
HasDecimals(amount) == IF IsFin(amount) THEN amount.v % Scale # 0 ELSE TRUE

\* format_amount with the test `amount % 1 != 0` turned round
format_amount_Swapped(amount) ==
    IF ~HasDecimals(amount) THEN FormatFixed2(amount)
    ELSE IntToStr(IntOfFin(amount.v))

format_amount(amount) ==
    IF HasDecimals(amount) THEN FormatFixed2(amount)
    ELSE IntToStr(IntOfFin(amount.v))

(***************************************************************************)
(* Inputs of format_amount                                                 *)
(***************************************************************************)
MaxAmount == 3

ErrOf(v) == IF ExactBinary(v) THEN {0} ELSE {0 - 1, 1}

AmountValues ==
    ((0 - MaxAmount * Scale)..(MaxAmount * Scale))
        \cup {2286 * Scale, 2286 * Scale + 9 * (Scale \div 100)}

AmountInputs ==
    {FinErr(v, e) : v \in AmountValues, e \in {0 - 1, 0, 1}} \cup {NaN, PosInf, NegInf}

InitFormat ==
    /\ pc = "format_amount"
    /\ args \in [amount : {a \in AmountInputs : IsFin(a) => a.e \in ErrOf(a.v)}]
    /\ ret = <<>>
    /\ transformed_data = PyNone
    /\ story = <<>>
    /\ generator = PyNone

CallFormatAmount ==
    /\ pc = "format_amount"
    /\ ret' = format_amount(args.amount)
    /\ pc' = "done"
    /\ UNCHANGED <<args, transformed_data, story, generator>>

SpecFormat == InitFormat /\ [][CallFormatAmount]_vars

(***************************************************************************)
(* Claims about format_amount                                              *)
(***************************************************************************)
\* an optional '-' and then digits only
PlainInteger(s) ==
    /\ Unsigned(s) # <<>>
    /\ AllDigits(Unsigned(s))

\* an optional '-', digits, a '.', and exactly two digits
TwoDecimals(s) ==
    /\ Len(Unsigned(s)) >= 4
    /\ DotPositions(s) = {Len(s) - 2}
    /\ AllDigits(IntPart(Unsigned(s)))
    /\ AllDigits(FracPart(s))

\* what C7 says of a float that has a fractional part or has none
C7_Shape ==
    IF HasDecimals(args.amount)
    THEN TwoDecimals(ret)
    ELSE PlainInteger(ret) /\ ParseFloat(ret) = Ok(Fin(args.amount.v))

FAdd(a, b) ==
    IF a.k = "nan" \/ b.k = "nan" THEN NaN
    ELSE IF a.k = "fin" /\ b.k = "fin" THEN Fin(a.v + b.v)
    ELSE IF a.k = "fin" THEN b
    ELSE IF b.k = "fin" THEN a
    ELSE IF a.k = b.k THEN a
    ELSE NaN

\* x > 0
FPositive(x) == (x.k = "fin" /\ x.v > 0) \/ x.k = "inf"

\* n / d with the powers of ten both share taken out
RECURSIVE Reduce10(_, _)
Reduce10(n, d) ==
    IF n % 10 = 0 /\ d % 10 = 0 THEN Reduce10(n \div 10, d \div 10) ELSE <<n, d>>

\* long division: <<q, r>> is quotient and remainder of n * 10^digits by d
RECURSIVE ScaledDiv(_, _, _, _)
ScaledDiv(q, r, d, digits) ==
    IF digits = 0 THEN <<q, r>>
    ELSE ScaledDiv(q * 10 + (r * 10) \div d, (r * 10) % d, d, digits - 1)

\* round(n / d * 100, 2) for n, d > 0, counted in hundredths
RoundRatio(n, d) ==
    LET nd == Reduce10(n, d)
        qr == ScaledDiv(nd[1] \div nd[2], nd[1] % nd[2], nd[2], 4)
    IN  IF 2 * qr[2] < nd[2] THEN qr[1]
        ELSE IF 2 * qr[2] > nd[2] THEN qr[1] + 1
        ELSE IF qr[1] % 2 = 0 THEN qr[1] ELSE qr[1] + 1

\* round(tax_amount / taxable * 100, 2), both > 0
FRate(tax_amount, taxable) ==
    IF tax_amount.k = "fin" /\ taxable.k = "fin"
    THEN Fin(RoundRatio(tax_amount.v, taxable.v) * (Scale \div 100))
    ELSE IF taxable.k = "fin" THEN PosInf
    ELSE IF tax_amount.k = "fin" THEN Fin(0)
    ELSE NaN

\* round(x) replaced by the integer at or below x
PyRound_Floor(x, err) ==
    CASE x.k = "nan" -> Raise("ValueError")
      [] x.k \in {"inf", "ninf"} -> Raise("OverflowError")
      [] OTHER -> Ok(x.v \div Scale)

\* round(x): ValueError for nan, OverflowError for an infinity
PyRound(x, err) ==
    CASE x.k = "nan" -> Raise("ValueError")
      [] x.k \in {"inf", "ninf"} -> Raise("OverflowError")
      [] OTHER -> Ok(RoundTo(x.v, Scale, err))

\* int(x) for a float
PyIntOfFloat(x) ==
    CASE x.k = "nan" -> Raise("ValueError")
      [] x.k \in {"inf", "ninf"} -> Raise("OverflowError")
      [] OTHER -> Ok(IntOfFin(x.v))

\* a key the record does not have
PyAbsent == [t |-> "absent", s |-> <<>>, n |-> 0, f |-> Fin(0)]

\* dict.get(key, default)
Get(value, default) == IF value.t = "absent" THEN default ELSE value

\* bool(x)
Truthy(x) ==
    CASE x.t \in {"None", "absent"} -> FALSE
      [] x.t = "str" -> x.s # <<>>
      [] x.t = "int" -> x.n # 0
      [] x.t = "float" -> ~(x.f.k = "fin" /\ x.f.v = 0)
      [] x.t = "bool" -> x.b
      [] x.t = "dict" -> DOMAIN x.d # {}
      [] x.t = "list" -> x = PyList \/ x.elems # <<>>
      [] OTHER -> TRUE

\* float(x)
PyFloatOf(x) == IF x.t = "str" THEN ParseFloat(x.s) ELSE FloatOfNumber(x)

(***************************************************************************)
(* InvoiceGenerator._parse_customer_info                                   *)
(***************************************************************************)
CommaPositions(s) == {i \in 1..Len(s) : s[i] = ","}

Min(S) == CHOOSE i \in S : \A j \in S : i <= j

Max(S) == CHOOSE i \in S : \A j \in S : i >= j

\* to_field.split(',', 1) cutting at the last comma instead of the first
SplitOnce_Last(s) ==
    IF CommaPositions(s) = {} THEN <<s>>
    ELSE <<SubSeq(s, 1, Max(CommaPositions(s)) - 1),
           SubSeq(s, Max(CommaPositions(s)) + 1, Len(s))>>

\* to_field.split(',', 1)
SplitOnce(s) ==
    IF CommaPositions(s) = {} THEN <<s>>
    ELSE <<SubSeq(s, 1, Min(CommaPositions(s)) - 1),
           SubSeq(s, Min(CommaPositions(s)) + 1, Len(s))>>

\* a value without a split method raises AttributeError
_parse_customer_info(to_field) ==
    IF to_field.t # "str" THEN Raise("AttributeError")
    ELSE LET to_parts == SplitOnce(to_field.s)
             customer_name == Strip(to_parts[1])
             customer_address == IF Len(to_parts) > 1 THEN Strip(to_parts[2])
                                 ELSE to_field.s
         IN  Ok(<<customer_name, customer_address>>)

(***************************************************************************)
(* InvoiceGenerator._transform_items                                       *)
(***************************************************************************)
\* a dict: d is a function from its keys to their values
PyDict(d) == [t |-> "dict", d |-> d]

\* a list of the given elements
PyListOf(elems) == [t |-> "list", elems |-> elems]

\* the elements a for loop over the value visits
Elements(value) == IF value = PyList THEN <<PyInt(1)>> ELSE value.elems

\* d[key], or PyAbsent for a key d does not have
Field(d, key) == IF key \in DOMAIN d THEN d[key] ELSE PyAbsent

\* the fraction digits of repr(x), trailing zeros dropped, for 0 <= v < Scale
RECURSIVE FracDigitsOf(_, _)
FracDigitsOf(v, unit) ==
    IF unit = 1 \/ v % unit = 0 THEN <<DigitChar(v \div unit)>>
    ELSE <<DigitChar(v \div unit)>> \o FracDigitsOf(v % unit, unit \div 10)

\* str(x) for a float
FloatToStr(x) ==
    CASE x.k = "nan" -> <<"n", "a", "n">>
      [] x.k = "inf" -> <<"i", "n", "f">>
      [] x.k = "ninf" -> <<"-", "i", "n", "f">>
      [] OTHER -> (IF x.v < 0 THEN <<"-">> ELSE <<>>)
                    \o NatToStr(Abs(x.v) \div Scale) \o <<".">>
                    \o FracDigitsOf(Abs(x.v) % Scale, Scale \div 10)

\* str(value)
PyStrOf(value) ==
    CASE value.t = "str" -> value.s
      [] value.t = "int" -> IntToStr(value.n)
      [] value.t = "float" -> FloatToStr(value.f)
      [] value.t = "None" -> <<"N", "o", "n", "e">>
      [] value = PyList -> <<"[", "1", "]">>
      [] OTHER -> <<"?">>

\* one item with quantity left as it arrived, without str()
_transform_item_RawQty(item) ==
    IF item.t # "dict" THEN Raise("AttributeError")
    ELSE LET amount == safe_float(Get(Field(item.d, "amount"), PyInt(0)), Fin(0))
         IN  IF amount.exc # "none" THEN amount
             ELSE Ok([ description |-> Get(Field(item.d, "name"), PyStr(<<>>)),
                       hsn_code |-> Get(Field(item.d, "hsn"), PyStr(<<>>)),
                       quantity |-> Get(Field(item.d, "qty"), PyStr(<<>>)),
                       rate |-> PyStr(PyStrOf(Get(Field(item.d, "rate"), PyStr(<<>>)))),
                       amount |-> PyFloat(amount.val) ])

\* lines 461-467: one pass of the loop; an item without a get method raises
_transform_item(item) ==
    IF item.t # "dict" THEN Raise("AttributeError")
    ELSE LET amount == safe_float(Get(Field(item.d, "amount"), PyInt(0)), Fin(0))
         IN  IF amount.exc # "none" THEN amount
             ELSE Ok([ description |-> Get(Field(item.d, "name"), PyStr(<<>>)),
                       hsn_code |-> Get(Field(item.d, "hsn"), PyStr(<<>>)),
                       quantity |-> PyStr(PyStrOf(Get(Field(item.d, "qty"), PyStr(<<>>)))),
                       rate |-> PyStr(PyStrOf(Get(Field(item.d, "rate"), PyStr(<<>>)))),
                       amount |-> PyFloat(amount.val) ])

\* the loop of lines 460-467 over the elements from position i on
RECURSIVE TransformFrom(_, _, _)
TransformFrom(elems, i, transformed) ==
    IF i > Len(elems) THEN Ok(transformed)
    ELSE LET r == _transform_item(elems[i])
         IN  IF r.exc # "none" THEN r
             ELSE TransformFrom(elems, i + 1, Append(transformed, r.val))

\* a str yields its characters and a dict its keys, which have no get
\* method; None and a number cannot be iterated
_transform_items(items) ==
    CASE items.t = "list" -> TransformFrom(Elements(items), 1, <<>>)
      [] items.t = "str" -> IF items.s = <<>> THEN Ok(<<>>) ELSE Raise("AttributeError")
      [] items.t = "dict" -> IF DOMAIN items.d = {} THEN Ok(<<>>) ELSE Raise("AttributeError")
      [] OTHER -> Raise("TypeError")

(***************************************************************************)
(* config.py and InvoiceGenerator.__init__                                 *)
(***************************************************************************)
COMPANY_CONFIG ==
    PyDict([ name |-> PyStr(<<"GOPAL TENT HOUSE">>),
             address |-> PyStr(<<"26, TINASHED, GOLMURI MARKET, JAMSHEDPUR, JHARKHAND">>),
             mobile |-> PyStr(<<"7004829773, 9431330019">>),
             state |-> PyStr(<<"Jharkhand">>),
             gstin |-> PyStr(<<"20ABKPB5821F2ZA">>),
             state_code |-> PyStr(<<"20">>),
             bank_details |-> PyDict([ ifsc |-> PyStr(<<"CBI0282406">>),
                                       account_number |-> PyStr(<<"1843803988">>),
                                       bank_name |-> PyStr(<<"Central Bank of India Golmuri, Jamshedpur">>) ]) ])

DEFAULT_CUSTOMER_GSTIN == PyStr(<<"20AAATC2716R2ZS">>)

\* self.company_config = company_config, without `or COMPANY_CONFIG`
__init___NoDefault(company_config) == [company_config |-> company_config]

\* line 186: self.company_config = company_config or COMPANY_CONFIG
__init__(company_config) ==
    [company_config |-> IF Truthy(company_config) THEN company_config ELSE COMPANY_CONFIG]

(***************************************************************************)
(* InvoiceGenerator._transform_input                                       *)
(***************************************************************************)
DEFAULT_CGST_RATE == 9
DEFAULT_SGST_RATE == 9

\* _calculate_tax_rate with `and tax_amount > 0` left out of its test
_calculate_tax_rate_AnyAmount(tax_amount, taxable, default_rate) ==
    IF FPositive(taxable) THEN PyFloat(FRate(tax_amount, taxable))
    ELSE default_rate

_calculate_tax_rate(tax_amount, taxable, default_rate) ==
    IF FPositive(taxable) /\ FPositive(tax_amount)
    THEN PyFloat(FRate(tax_amount, taxable))
    ELSE default_rate

\* line 405 without its abs()
round_off_Signed(rounded_total, actual_total) ==
    rounded_total * Scale - actual_total.v

\* line 405: abs(rounded_total - actual_total), in units of 1/Scale
round_off(rounded_total, actual_total) ==
    Abs(rounded_total * Scale - actual_total.v)

\* the sign of the binary error of rounded_total - actual_total, given that
\* of actual_total
RoundOffErr(rounded_total, actual_total, err) ==
    LET diff == rounded_total * Scale - actual_total.v
    IN  IF diff > 0 THEN 0 - err ELSE IF diff < 0 THEN err ELSE Abs(err)

\* line 429 without its `if abs(round_off) > 0.01`
round_off_field_Always(ro, err) ==
    PyFloat(Fin(RoundTo(ro, Scale \div 100, err) * (Scale \div 100)))

\* line 429: round(round_off, 2) if abs(round_off) > 0.01 else ''
round_off_field(ro, err) ==
    IF Abs(ro) > Scale \div 100 \/ (Abs(ro) = Scale \div 100 /\ err > 0)
    THEN PyFloat(Fin(RoundTo(ro, Scale \div 100, err) * (Scale \div 100)))
    ELSE PyStr(<<>>)

\* line 408 with the caller's total never used
final_total_RoundedOnly(total_input, rounded_total) == PyInt(rounded_total)

\* line 408: total_input if total_input > 0 else rounded_total
final_total(total_input, rounded_total) ==
    IF FPositive(total_input) THEN PyFloat(total_input) ELSE PyInt(rounded_total)

\* lines 402-432, once the four amounts are parsed and the sum is rounded
CanonicalRecord(invoice_data, amounts, total_input, actual_total, rounded_total, err) ==
    LET taxable == amounts[1]
        cgst_amount == amounts[2]
        sgst_amount == amounts[3]
    IN
    [ tax_summary |->
        [ taxable_amount |-> PyFloat(taxable),
          cgst_rate |-> _calculate_tax_rate(cgst_amount, taxable, PyInt(DEFAULT_CGST_RATE)),
          cgst_amount |-> PyFloat(cgst_amount),
          sgst_rate |-> _calculate_tax_rate(sgst_amount, taxable, PyInt(DEFAULT_SGST_RATE)),
          sgst_amount |-> PyFloat(sgst_amount),
          igst_rate |-> Get(Field(invoice_data, "igst_rate"), PyStr(<<>>)),
          round_off |-> round_off_field(round_off(rounded_total, actual_total),
                                        RoundOffErr(rounded_total, actual_total, err)),
          invoice_total |-> final_total(total_input, rounded_total) ] ]

\* the first of the results that raised, or the last of them
FirstRaise(results) ==
    IF \E i \in 1..Len(results) : results[i].exc # "none"
    THEN results[CHOOSE i \in 1..Len(results) :
                    /\ results[i].exc # "none"
                    /\ \A j \in 1..(i - 1) : results[j].exc = "none"]
    ELSE results[Len(results)]

\* lines 409-432: the record returned, tax_summary being that of
\* CanonicalRecord
FullRecord(self, invoice_data, customer, transformed_items, summary) ==
    [ company |-> self.company_config,
      invoice_number |-> Get(Field(invoice_data, "invoice_no"), PyStr(<<>>)),
      invoice_date |-> Get(Field(invoice_data, "invoice_date"), PyStr(<<>>)),
      customer |-> [ name |-> PyStr(customer[1]),
                     address |-> PyStr(customer[2]),
                     gstin |-> Get(Field(invoice_data, "customer_gstin"),
                                   DEFAULT_CUSTOMER_GSTIN) ],
      job_description |-> Get(Field(invoice_data, "job_description"), PyStr(<<>>)),
      event_name |-> Get(Field(invoice_data, "event_name"), PyStr(<<>>)),
      items |-> transformed_items,
      tax_summary |-> summary.tax_summary ]

\* err is the sign of the binary error of taxable + cgst_amount + sgst_amount
_transform_input(self, invoice_data, err) ==
    LET customer == _parse_customer_info(Get(Field(invoice_data, "to"), PyStr(<<>>)))
        transformed_items ==
            _transform_items(Get(Field(invoice_data, "items"), PyListOf(<<>>)))
        taxable == safe_float(Get(Field(invoice_data, "taxable_amount"), PyStr(<<"0">>)), Fin(0))
        cgst_amount == safe_float(Get(Field(invoice_data, "cgst"), PyStr(<<"0">>)), Fin(0))
        sgst_amount == safe_float(Get(Field(invoice_data, "sgst"), PyStr(<<"0">>)), Fin(0))
        total_input == safe_float(Get(Field(invoice_data, "total"), PyStr(<<"0">>)), Fin(0))
        parsed == FirstRaise(<<customer, transformed_items, taxable, cgst_amount,
                               sgst_amount, total_input>>)
    IN  IF parsed.exc # "none" THEN parsed
        ELSE LET actual_total == FAdd(FAdd(taxable.val, cgst_amount.val), sgst_amount.val)
                 rounded_total == PyRound(actual_total, err)
             IN  IF rounded_total.exc # "none" THEN rounded_total
                 ELSE Ok(FullRecord(self, invoice_data, customer.val, transformed_items.val,
                            CanonicalRecord(invoice_data,
                                <<taxable.val, cgst_amount.val, sgst_amount.val>>,
                                total_input.val, actual_total, rounded_total.val, err)))

(***************************************************************************)
(* InvoiceGenerator._build_footer: the rows of the tax summary table       *)
(***************************************************************************)
\* float(x) if x else 0
FloatOrZero(x) == IF Truthy(x) THEN PyFloatOf(x) ELSE Ok(Fin(0))

\* f"{rate:.0f}%" if rate else ""
RateDisplay(rate) ==
    IF rate.k = "fin" /\ rate.v = 0 THEN <<>>
    ELSE CASE rate.k = "nan" -> <<"n", "a", "n", "%">>
           [] rate.k = "inf" -> <<"i", "n", "f", "%">>
           [] rate.k = "ninf" -> <<"-", "i", "n", "f", "%">>
           [] OTHER -> IntToStr(RoundTo(rate.v, Scale, 0)) \o <<"%">>

\* f"{amt:.2f}" if amt and amt % 1 != 0 else (str(int(amt)) if amt else "")
AmountDisplay(amt) ==
    IF amt.k = "fin" /\ amt.v = 0 THEN <<>>
    ELSE IF HasDecimals(amt)
         THEN (IF IsFin(amt) THEN Fixed2(amt.v, 0) ELSE FormatFixed2(amt))
         ELSE IntToStr(IntOfFin(amt.v))

\* f'CGST ({display})' if display else 'CGST'
TaxLabel(name, display) ==
    IF display # <<>> THEN <<name, " ", "(">> \o display \o <<")">> ELSE <<name>>

\* lines 736-740: the round-off is shown as abs(float(round_off_val)), .2f
RoundOffDisplay(round_off_val) ==
    IF Truthy(round_off_val) /\ round_off_val # PyStr(<<>>)
    THEN Fixed2(Abs(PyFloatOf(round_off_val).val.v), 0)
    ELSE <<>>

\* str(int(x)) for a value of the record
StrOfInt(x) ==
    IF x.t = "int" THEN Ok(IntToStr(x.n))
    ELSE LET i == PyIntOfFloat(x.f)
         IN  IF i.exc # "none" THEN i ELSE Ok(IntToStr(i.val))

_build_footer(data) ==
    LET tax == data.tax_summary
        taxable == PyFloatOf(tax.taxable_amount)
        cgst_rate == FloatOrZero(tax.cgst_rate)
        sgst_rate == FloatOrZero(tax.sgst_rate)
        igst_rate == IF Truthy(tax.igst_rate) /\ tax.igst_rate # PyStr(<<>>)
                     THEN PyFloatOf(tax.igst_rate) ELSE Ok(Fin(0))
        cgst_amt == FloatOrZero(tax.cgst_amount)
        sgst_amt == FloatOrZero(tax.sgst_amount)
        taxable_row == StrOfInt(PyFloat(taxable.val))
        total_row == StrOfInt(tax.invoice_total)
        raised == FirstRaise(<<taxable, cgst_rate, sgst_rate, igst_rate, cgst_amt,
                               sgst_amt, taxable_row, total_row>>)
    IN  IF raised.exc # "none" THEN raised
        ELSE Ok([ section |-> "footer",
                  taxable_amount |-> taxable_row.val,
                  cgst_label |-> TaxLabel("CGST", RateDisplay(cgst_rate.val)),
                  cgst_amount |-> AmountDisplay(cgst_amt.val),
                  sgst_label |-> TaxLabel("SGST", RateDisplay(sgst_rate.val)),
                  sgst_amount |-> AmountDisplay(sgst_amt.val),
                  igst_label |-> TaxLabel("IGST", RateDisplay(igst_rate.val)),
                  igst_amount |-> <<>>,
                  round_off |-> RoundOffDisplay(tax.round_off),
                  invoice_total |-> total_row.val ])

(***************************************************************************)
(* InvoiceGenerator._build_amount_in_words                                 *)
(***************************************************************************)
\* int(total)
IntOfTotal(total) == IF total.t = "int" THEN Ok(total.n) ELSE PyIntOfFloat(total.f)

_build_amount_in_words(data) ==
    LET num == IntOfTotal(data.tax_summary.invoice_total)
    IN  IF num.exc # "none" THEN num
        ELSE LET words == number_to_words(num.val)
             IN  IF words.exc # "none" THEN words
                 ELSE Ok([ section |-> "amount_in_words",
                           num |-> num.val,
                           words |-> words.val \o <<" ", "only.">> ])

(***************************************************************************)
(* Raw invoice records: the numeric fields of invoice_data                 *)
(***************************************************************************)
Str1(a) == PyStr(<<a>>)

TaxableInputs ==
    { PyAbsent, PyNone, PyStr(<<>>), PyStr(<<"a", "b", "c">>), PyStr(<<"n", "a", "n">>),
      PyStr(<<"i", "n", "f">>), PyList, PyHugeInt,
      Str1("0"), PyStr(<<"1", "0", "0">>), PyStr(<<"-", "1", "0", "0">>),
      PyStr(<<"2", ".", "5">>), PyStr(<<"-", "2", ".", "5">>),
      PyStr(<<"1", "0", "0", ".", "0", "1">>), PyStr(<<"1", ".", "0", "0", "4">>),
      PyStr(<<"0", ".", "1", "2", "5">>), PyStr(<<"1", ",", "0", "0", "0">>),
      PyFloat(Fin(Scale \div 2)) }
        \cup {PyInt(n) : n \in (0 - MaxInt)..MaxInt}

CgstInputs ==
    { PyAbsent, PyStr(<<>>), PyStr(<<"a", "b", "c">>), PyStr(<<"n", "a", "n">>), PyList,
      Str1("0"), Str1("9"), PyStr(<<"-", "1">>), PyStr(<<"0", ".", "5">>),
      PyStr(<<"0", ".", "1", "8">>), PyStr(<<"0", ".", "0", "1">>) }

SgstInputs ==
    { PyAbsent, Str1("0"), Str1("9"), PyStr(<<"0", ".", "5">>), PyStr(<<"0", ".", "4", "9">>) }

TotalInputs ==
    { PyAbsent, PyStr(<<>>), PyStr(<<"a", "b", "c">>), PyStr(<<"n", "a", "n">>),
      PyStr(<<"i", "n", "f">>), PyList, Str1("0"), PyStr(<<"-", "5">>),
      PyStr(<<"1", "1", "8">>), PyStr(<<"2", "9", ".", "5">>) }

IgstInputs == { PyAbsent, PyStr(<<"1", "8">>), PyStr(<<"a", "b", "c">>) }

\* the records of the repository's own examples (lambda_function.py,
\* test_decimal.py)
ExampleInputs ==
    { [ taxable_amount |-> PyStr(<<"2", "5", "4", "0", "0">>),
        cgst |-> PyStr(<<"2", "2", "8", "6">>), sgst |-> PyStr(<<"2", "2", "8", "6">>),
        igst_rate |-> PyAbsent, total |-> PyStr(<<"2", "9", "9", "7", "2">>) ],
      [ taxable_amount |-> PyStr(<<"2", "5", "4", "0", "1">>),
        cgst |-> PyStr(<<"2", "2", "8", "6", ".", "0", "9">>),
        sgst |-> PyStr(<<"2", "2", "8", "6", ".", "0", "9">>),
        igst_rate |-> PyAbsent,
        total |-> PyStr(<<"2", "9", "9", "7", "3", ".", "1", "8">>) ] }

InvoiceInputs ==
    [ taxable_amount : TaxableInputs, cgst : CgstInputs, sgst : SgstInputs,
      igst_rate : IgstInputs, total : TotalInputs ] \cup ExampleInputs

\* the binary errors the sum taxable + cgst_amount + sgst_amount can carry:
\* none when the three amounts are exact in binary; some when the decimal sum
\* is not
ErrInputs(invoice_data) ==
    LET a == safe_float(Get(Field(invoice_data, "taxable_amount"), PyStr(<<"0">>)), Fin(0))
        b == safe_float(Get(Field(invoice_data, "cgst"), PyStr(<<"0">>)), Fin(0))
        c == safe_float(Get(Field(invoice_data, "sgst"), PyStr(<<"0">>)), Fin(0))
    IN  IF \E x \in {a, b, c} : x.exc # "none" \/ ~IsFin(x.val) THEN {0}
        ELSE IF \A x \in {a, b, c} : ExactBinary(x.val.v) THEN {0}
        ELSE IF ExactBinary(a.val.v + b.val.v + c.val.v) THEN {0 - 1, 0, 1}
        ELSE {0 - 1, 1}

(***************************************************************************)
(* InvoiceGenerator.generate_invoice, step by step: the steps that read    *)
(* the tax summary (_transform_input, _build_footer,                       *)
(* _build_amount_in_words).  The header, invoice-info, customer and items  *)
(* sections read only the text fields of the record.                       *)
(***************************************************************************)
Init ==
    /\ pc = "transform"
    /\ args \in {[invoice_data |-> d, err |-> e] : d \in InvoiceInputs, e \in {0 - 1, 0, 1}}
    /\ args.err \in ErrInputs(args.invoice_data)
    /\ ret = Ok(<<>>)
    /\ transformed_data = PyNone
    /\ story = <<>>
    /\ generator = __init__(PyNone)

\* an exception leaves generate_invoice
Escapes(r) ==
    /\ pc' = "raised"
    /\ ret' = r
    /\ UNCHANGED <<args, transformed_data, story, generator>>

TransformInput ==
    /\ pc = "transform"
    /\ LET r == _transform_input(generator, args.invoice_data, args.err)
       IN  IF r.exc # "none" THEN Escapes(r)
           ELSE /\ transformed_data' = r.val
                /\ pc' = "footer"
                /\ UNCHANGED <<args, ret, story, generator>>

BuildFooter ==
    /\ pc = "footer"
    /\ LET r == _build_footer(transformed_data)
       IN  IF r.exc # "none" THEN Escapes(r)
           ELSE /\ story' = Append(story, r.val)
                /\ pc' = "amount_in_words"
                /\ UNCHANGED <<args, ret, transformed_data, generator>>

BuildAmountInWords ==
    /\ pc = "amount_in_words"
    /\ LET r == _build_amount_in_words(transformed_data)
       IN  IF r.exc # "none" THEN Escapes(r)
           ELSE /\ story' = Append(story, r.val)
                /\ pc' = "done"
                /\ UNCHANGED <<args, ret, transformed_data, generator>>

Next == TransformInput \/ BuildFooter \/ BuildAmountInWords

Spec == Init /\ [][Next]_vars

(***************************************************************************)
(* Claims about the canonical record and the sections built from it        *)
(***************************************************************************)
\* the canonical record exists once _transform_input has returned
HasRecord == transformed_data # PyNone

Summary == transformed_data.tax_summary

\* the amount-in-words sections appended so far
WordsSections == {i \in 1..Len(story) : story[i].section = "amount_in_words"}

FooterSections == {i \in 1..Len(story) : story[i].section = "footer"}

\* C6: the value _build_amount_in_words passes to number_to_words is a
\* non-negative integer, whatever raw record the canonical record came from
C6_NonNegativeWordsArg == \A i \in WordsSections : story[i].num >= 0

\* C8: in the canonical record cgst_rate (likewise sgst_rate) is
\* round(tax_amount / taxable * 100, 2) when taxable > 0 and tax_amount > 0,
\* and the configured default rate in every other case
NearestHundredth(rate, tax_amount, taxable) ==
    /\ rate.t = "float" /\ rate.f.k = "fin"
    /\ rate.f.v % (Scale \div 100) = 0
    /\ LET h == rate.f.v \div (Scale \div 100)
       IN  2 * Abs(h * taxable - tax_amount * 10000) <= taxable

\* amounts small enough for the products above
SmallAmounts(tax_amount, taxable) == taxable <= 2000 * Scale /\ tax_amount <= 10 * Scale

RateDerived(rate, tax_amount, taxable, default_rate) ==
    IF taxable.f.v > 0 /\ tax_amount.f.v > 0
    THEN /\ rate.t = "float"
         /\ SmallAmounts(tax_amount.f.v, taxable.f.v)
                => NearestHundredth(rate, tax_amount.f.v, taxable.f.v)
    ELSE rate = PyInt(default_rate)

\* the raw tax field is absent, empty, unparseable, zero or negative
NoTaxGiven(raw) ==
    raw \in {PyAbsent, PyStr(<<>>), PyStr(<<"a", "b", "c">>), Str1("0"), PyStr(<<"-", "1">>)}

C8_TaxRates ==
    HasRecord =>
        /\ IsFin(Summary.taxable_amount.f) /\ IsFin(Summary.cgst_amount.f)
        /\ IsFin(Summary.sgst_amount.f)
        /\ RateDerived(Summary.cgst_rate, Summary.cgst_amount, Summary.taxable_amount,
                       DEFAULT_CGST_RATE)
        /\ RateDerived(Summary.sgst_rate, Summary.sgst_amount, Summary.taxable_amount,
                       DEFAULT_SGST_RATE)
        /\ NoTaxGiven(args.invoice_data.cgst) => Summary.cgst_rate = PyInt(9)
        /\ NoTaxGiven(args.invoice_data.sgst) => Summary.sgst_rate = PyInt(9)
        /\ args.invoice_data \in ExampleInputs
              => Summary.cgst_rate = PyFloat(Fin(9 * Scale))
                    /\ Summary.sgst_rate = PyFloat(Fin(9 * Scale))

\* taxable "100", cgst "9", sgst "0": one rate derived, the other the default
C8_Witness ==
    /\ HasRecord
    /\ Summary.taxable_amount = PyFloat(Fin(100 * Scale))
    /\ Summary.cgst_amount = PyFloat(Fin(9 * Scale))
    /\ Summary.cgst_rate = PyFloat(Fin(9 * Scale))
    /\ Summary.sgst_amount = PyFloat(Fin(0))
    /\ Summary.sgst_rate = PyInt(9)

\* C9: with actualTotal = taxable + cgst_amount + sgst_amount and
\* roundedTotal = round(actualTotal), round_off is empty when
\* abs(roundedTotal - actualTotal) <= 0.01 and is that difference rounded
\* to 2 decimal places otherwise; the caller's total plays no part in it
ActualTotal == Summary.taxable_amount.f.v + Summary.cgst_amount.f.v + Summary.sgst_amount.f.v

\* abs(roundedTotal - actualTotal), in units of 1/Scale
Distance ==
    LET r == ActualTotal % Scale
    IN  IF 2 * r < Scale THEN r ELSE Scale - r

\* the side of Distance the float difference lies on: actualTotal carries
\* the error args.err, and the subtraction turns it round when
\* roundedTotal is the larger
DistanceErr ==
    IF 2 * (ActualTotal % Scale) < Scale THEN args.err ELSE 0 - args.err

Hundredth == Scale \div 100

ExceedsOneHundredth == Distance > Hundredth \/ (Distance = Hundredth /\ DistanceErr > 0)

\* v is Distance to 2 decimal places: the nearest hundredth, and at a
\* decimal tie the one the float difference is nearer to
RoundedDistance(v) ==
    /\ v % Hundredth = 0
    /\ \/ 2 * Abs(v - Distance) < Hundredth
       \/ /\ 2 * Abs(v - Distance) = Hundredth
          /\ DistanceErr > 0 => v > Distance
          /\ DistanceErr < 0 => v < Distance
          /\ DistanceErr = 0 => (v \div Hundredth) % 2 = 0

WithoutTotal ==
    _transform_input(generator, [args.invoice_data EXCEPT !.total = PyAbsent], args.err)

HasMinus(str) == \E i \in 1..Len(str) : str[i] = "-"

C10_RoundOffNonNegative ==
    HasRecord =>
        /\ \/ Summary.round_off = PyStr(<<>>)
           \/ /\ Summary.round_off.t = "float"
              /\ IsFin(Summary.round_off.f)
              /\ Summary.round_off.f.v >= 0
        /\ \A i \in FooterSections : ~HasMinus(story[i].round_off)

\* taxable "100", cgst "0.18": the total is rounded down by 0.18, and
\* round_off and the footer show 0.18 without a sign
C10_Witness ==
    /\ HasRecord
    /\ ActualTotal = 100 * Scale + 18 * Hundredth
    /\ Summary.invoice_total = PyInt(100)
    /\ Summary.round_off = PyFloat(Fin(18 * Hundredth))
    /\ \E i \in FooterSections : story[i].round_off = <<"0", ".", "1", "8">>

\* C11: invoice_total is the caller-supplied total whenever that field
\* parses (via safe_float) to a value > 0, and round(taxable + cgst_amount +
\* sgst_amount) when it is absent, empty, unparseable, zero or negative
SuppliedTotal == safe_float(Get(args.invoice_data.total, PyStr(<<"0">>)), Fin(0)).val

\* n is round(actualTotal): the nearest integer, and at .5 the one the
\* float sum is nearer to (the even one when the sum is exact)
IsRoundedTotal(n) ==
    \/ 2 * Abs(n * Scale - ActualTotal) < Scale
    \/ /\ 2 * Abs(n * Scale - ActualTotal) = Scale
       /\ args.err > 0 => n * Scale > ActualTotal
       /\ args.err < 0 => n * Scale < ActualTotal
       /\ args.err = 0 => n % 2 = 0

\* the raw total is absent, empty, unparseable, zero or negative
NoTotalGiven(raw) ==
    raw \in {PyAbsent, PyStr(<<>>), PyStr(<<"a", "b", "c">>), PyStr(<<"n", "a", "n">>),
             Str1("0"), PyStr(<<"-", "5">>)}

DecimalExample ==
    [ taxable_amount |-> PyStr(<<"2", "5", "4", "0", "1">>),
      cgst |-> PyStr(<<"2", "2", "8", "6", ".", "0", "9">>),
      sgst |-> PyStr(<<"2", "2", "8", "6", ".", "0", "9">>),
      igst_rate |-> PyAbsent,
      total |-> PyStr(<<"2", "9", "9", "7", "3", ".", "1", "8">>) ]

C12_DecimalExample ==
    args.invoice_data = DecimalExample =>
        \A i \in FooterSections :
            /\ story[i].round_off = <<"0", ".", "8", "2">>
            /\ story[i].invoice_total = <<"2", "9", "9", "7", "4">>

(***************************************************************************)
(* _parse_customer_info on its own                                         *)
(***************************************************************************)
ToChars == {"A", "b", " ", ","}

ABC123Street ==
    <<"A", "B", "C", ",", " ", "1", "2", "3", " ", "S", "t", "r", "e", "e", "t">>

JustAName == <<"J", "u", "s", "t", " ", "A", " ", "N", "a", "m", "e">>

ToInputs ==
    {PyStr(s) : s \in SeqsUpTo(ToChars, MaxStrLen) \cup {ABC123Street, JustAName}}
        \cup {PyNone, PyInt(1), PyList}

InitCustomer ==
    /\ pc = "_parse_customer_info"
    /\ args \in [to_field : ToInputs]
    /\ ret = Ok(<<>>)
    /\ transformed_data = PyNone
    /\ story = <<>>
    /\ generator = PyNone

CallParseCustomerInfo ==
    /\ pc = "_parse_customer_info"
    /\ ret' = _parse_customer_info(args.to_field)
    /\ pc' = "done"
    /\ UNCHANGED <<args, transformed_data, story, generator>>

SpecCustomer == InitCustomer /\ [][CallParseCustomerInfo]_vars

\* C13: the 'to' string is split on its first comma only: name is the
\* trimmed part before it and address the trimmed remainder; without a
\* comma name is the trimmed whole string and address the whole string
\* unmodified
AllSpaces(s) == \A i \in 1..Len(s) : s[i] = " "

Trimmed(s) == s = <<>> \/ (s[1] # " " /\ s[Len(s)] # " ")

\* x is y without its leading and trailing blanks
TrimOf(x, y) ==
    /\ Trimmed(x)
    /\ \E a \in 0..Len(y) :
          /\ a + Len(x) <= Len(y)
          /\ SubSeq(y, a + 1, a + Len(x)) = x
          /\ AllSpaces(SubSeq(y, 1, a))
          /\ AllSpaces(SubSeq(y, a + Len(x) + 1, Len(y)))

ParsedString == pc = "done" /\ args.to_field.t = "str" /\ ret.exc = "none"

C13_WithComma ==
    (ParsedString /\ CommaPositions(args.to_field.s) # {}) =>
        \E i \in CommaPositions(args.to_field.s) :
            /\ CommaPositions(SubSeq(args.to_field.s, 1, i - 1)) = {}
            /\ TrimOf(ret.val[1], SubSeq(args.to_field.s, 1, i - 1))
            /\ TrimOf(ret.val[2], SubSeq(args.to_field.s, i + 1, Len(args.to_field.s)))

C13_Examples ==
    /\ (ParsedString /\ args.to_field.s = ABC123Street)
          => ret.val = <<<<"A", "B", "C">>, <<"1", "2", "3", " ", "S", "t", "r", "e", "e", "t">>>>
    /\ (ParsedString /\ args.to_field.s = JustAName) => ret.val = <<JustAName, JustAName>>

C13_FirstComma ==
    /\ (pc = "done" /\ args.to_field.t = "str") => ret.exc = "none"
    /\ C13_WithComma
    /\ C13_Examples
    /\ (ParsedString /\ CommaPositions(args.to_field.s) = {})
          => TrimOf(ret.val[1], args.to_field.s) /\ ret.val[2] = args.to_field.s

\* C13 as stated: without a comma, name == address == the input
C13_NameIsInput ==
    /\ C13_WithComma
    /\ C13_Examples
    /\ (ParsedString /\ CommaPositions(args.to_field.s) = {})
          => ret.val[1] = args.to_field.s /\ ret.val[2] = args.to_field.s

\* "A,b," : the second comma stays inside the address
C13_Witness ==
    /\ ParsedString
    /\ args.to_field.s = <<"A", ",", "b", ",">>
    /\ ret.val = <<<<"A">>, <<"b", ",">>>>

(***************************************************************************)
(* _transform_items on its own                                             *)
(***************************************************************************)
MaxItems == 2

Item(name, qty, rate, amount) ==
    PyDict([name |-> name, hsn |-> PyAbsent, qty |-> qty, rate |-> rate, amount |-> amount])

QtyInputs == {PyAbsent, PyInt(1), PyStr(<<"2">>), PyNone}

ItemAmountInputs ==
    {PyAbsent, PyStr(<<>>), PyStr(<<"a", "b", "c">>), PyStr(<<"5">>), PyInt(3)}

ItemInputs ==
    {Item(PyStr(<<"A">>), q, PyStr(<<"5">>), a) : q \in QtyInputs, a \in ItemAmountInputs}
        \cup {Item(PyStr(<<"b">>), PyFloat(Fin(2 * Scale + Scale \div 2)), r, PyNone) :
                r \in {PyAbsent, PyInt(0), PyStr(<<>>), PyFloat(Fin(Scale \div 8))}}
        \cup {Item(PyStr(<<"b">>), PyInt(1), PyInt(1), PyList), PyDict(<<>>), PyInt(1)}

ItemsInputs ==
    {PyListOf(e) : e \in SeqsUpTo(ItemInputs, MaxItems)}
        \cup {PyNone, PyInt(5), PyStr(<<>>), PyStr(<<"a", "b">>), PyList, PyDict(<<>>),
              PyDict([a |-> PyInt(1)])}

InitItems ==
    /\ pc = "_transform_items"
    /\ args \in [items : ItemsInputs]
    /\ ret = Ok(<<>>)
    /\ transformed_data = PyNone
    /\ story = <<>>
    /\ generator = PyNone

CallTransformItems ==
    /\ pc = "_transform_items"
    /\ ret' = _transform_items(args.items)
    /\ pc' = "done"
    /\ UNCHANGED <<args, transformed_data, story, generator>>

SpecItems == InitItems /\ [][CallTransformItems]_vars

\* C18: one canonical item per raw item, in the same order; quantity and
\* rate are the string form of whatever arrived ('' when the key is
\* absent); amount is safe_float(raw amount) with default 0, so an empty,
\* absent or unparseable amount is 0.0
RawItem(i) == args.items.elems[i].d

\* text is str(raw), '' for an absent key
StringForm(text, raw) ==
    /\ text.t = "str"
    /\ raw.t = "absent" => text.s = <<>>
    /\ raw.t = "str" => text.s = raw.s
    /\ raw.t = "None" => text.s = <<"N", "o", "n", "e">>
    /\ raw.t = "int" => ParseFloat(text.s) = Ok(Fin(raw.n * Scale)) /\ DotPositions(text.s) = {}
    /\ raw.t = "float" => ParseFloat(text.s) = Ok(raw.f) /\ DotPositions(text.s) # {}

ItemsReturned ==
    /\ pc = "done" /\ ret.exc = "none"
    /\ args.items.t = "list" /\ args.items # PyList

C18_Items ==
    ItemsReturned =>
        /\ Len(ret.val) = Len(args.items.elems)
        /\ \A i \in 1..Len(ret.val) :
              /\ ret.val[i].description = Get(Field(RawItem(i), "name"), PyStr(<<>>))
              /\ StringForm(ret.val[i].quantity, Field(RawItem(i), "qty"))
              /\ StringForm(ret.val[i].rate, Field(RawItem(i), "rate"))
              /\ Field(RawItem(i), "amount")
                    \in {PyAbsent, PyNone, PyStr(<<>>), PyStr(<<"a", "b", "c">>)}
                    => ret.val[i].amount = PyFloat(Fin(0))
              /\ Field(RawItem(i), "amount") = PyStr(<<"5">>)
                    => ret.val[i].amount = PyFloat(Fin(5 * Scale))
              /\ Field(RawItem(i), "amount") = PyInt(3)
                    => ret.val[i].amount = PyFloat(Fin(3 * Scale))

\* items "A" (qty 1, amount '') then "b" (qty 2.5, no rate, amount None)
C18_Witness ==
    /\ ItemsReturned
    /\ Len(ret.val) = 2
    /\ ret.val[1].description = PyStr(<<"A">>)
    /\ ret.val[1].quantity = PyStr(<<"1">>)
    /\ RawItem(1).amount = PyStr(<<>>)
    /\ ret.val[1].amount = PyFloat(Fin(0))
    /\ ret.val[2].description = PyStr(<<"b">>)
    /\ ret.val[2].quantity = PyStr(<<"2", ".", "5">>)
    /\ ret.val[2].rate = PyStr(<<>>)
    /\ RawItem(2).rate = PyAbsent

(***************************************************************************)
(* Construction with a configuration, then generate_invoice                *)
(***************************************************************************)
\* the configuration of test_with_custom_config (test_invoice.py)
CustomCompany ==
    [ name |-> PyStr(<<"MY CUSTOM BUSINESS">>),
      address |-> PyStr(<<"123 Custom Street, Custom City, Custom State">>),
      mobile |-> PyStr(<<"1234567890">>),
      state |-> PyStr(<<"Custom State">>),
      gstin |-> PyStr(<<"12ABCDE1234F1Z5">>),
      state_code |-> PyStr(<<"12">>),
      bank_details |-> PyDict([ ifsc |-> PyStr(<<"CUST0001234">>),
                                account_number |-> PyStr(<<"11111111111111">>),
                                bank_name |-> PyStr(<<"Custom Bank, Custom Branch">>) ]) ]

\* the same configuration carrying defaults of its own
CustomDefaults ==
    [ default_cgst_rate |-> PyInt(5), default_sgst_rate |-> PyInt(6),
      default_customer_gstin |-> PyStr(<<"12AAAAA0000A1Z5">>) ]

ConfigInputs ==
    { PyNone, PyDict(<<>>), COMPANY_CONFIG, PyDict(CustomCompany),
      PyDict(CustomCompany @@ CustomDefaults) }

ConfigInvoiceInputs ==
    [ invoice_no : {PyStr(<<"134">>)},
      to : {PyStr(<<"A", ",", "b">>)},
      items : {PyListOf(<<>>),
               PyListOf(<<Item(PyStr(<<"A">>), PyInt(1), PyStr(<<"5">>), PyStr(<<"5">>))>>)},
      customer_gstin : {PyAbsent, PyStr(<<"20AAAAA0000A1Z5">>)},
      taxable_amount : {Str1("0"), PyStr(<<"1", "0", "0">>)},
      cgst : {PyAbsent, Str1("0"), Str1("9")},
      sgst : {PyAbsent, Str1("9")},
      total : {PyAbsent, PyStr(<<"1", "1", "8">>)} ]

InitConfig ==
    /\ pc = "__init__"
    /\ args \in [company_config : ConfigInputs, invoice_data : ConfigInvoiceInputs, err : {0}]
    /\ ret = Ok(<<>>)
    /\ transformed_data = PyNone
    /\ story = <<>>
    /\ generator = PyNone

\* generator = InvoiceGenerator(company_config)
Construct ==
    /\ pc = "__init__"
    /\ generator' = __init__(args.company_config)
    /\ pc' = "transform"
    /\ UNCHANGED <<args, ret, transformed_data, story>>

NextConfig == Construct \/ TransformInput \/ BuildFooter \/ BuildAmountInWords

SpecConfig == InitConfig /\ [][NextConfig]_vars

\* the fallback applies: the tax is absent or zero, or taxable is zero
FallsBack(raw) == raw \in {PyAbsent, Str1("0")} \/ args.invoice_data.taxable_amount = Str1("0")

HasDefaults == args.company_config.t = "dict" /\ "default_cgst_rate" \in DOMAIN args.company_config.d

\* C19: the default CGST rate, default SGST rate and default customer GSTIN
\* the normalizer falls back to are those of the configuration passed for
\* the call
C19_DefaultsFromConfig ==
    (HasRecord /\ HasDefaults) =>
        /\ FallsBack(args.invoice_data.cgst)
              => Summary.cgst_rate = args.company_config.d.default_cgst_rate
        /\ FallsBack(args.invoice_data.sgst)
              => Summary.sgst_rate = args.company_config.d.default_sgst_rate
        /\ args.invoice_data.customer_gstin = PyAbsent
              => transformed_data.customer.gstin = args.company_config.d.default_customer_gstin

\* C20: the 'company' block of the canonical record is the configuration
\* passed to the constructor, and COMPANY_CONFIG when None or an empty one
\* was passed, whatever the raw record
C20_CompanyBlock ==
    HasRecord =>
        transformed_data.company = IF args.company_config \in {PyNone, PyDict(<<>>)}
                                   THEN COMPANY_CONFIG
                                   ELSE args.company_config

\* the custom configuration of test_invoice.py reaches the record
C20_Witness ==
    /\ HasRecord
    /\ args.company_config = PyDict(CustomCompany)
    /\ transformed_data.company = PyDict(CustomCompany)
    /\ transformed_data.company # COMPANY_CONFIG
    /\ transformed_data.company.d.name = PyStr(<<"MY CUSTOM BUSINESS">>)

(***************************************************************************)
(* json and base64, as lambda_function.py uses them.  A text is a sequence *)
(* of tokens: the punctuation of JSON, the word null, single characters,   *)
(* and the field names, each field name being one token.                   *)
(***************************************************************************)
\* True and False
PyBool(b) == [t |-> "bool", b |-> b]

\* a value json.dumps cannot serialise (a set, bytes, an object)
PyObject == [t |-> "object"]

Quote == "\""

SkipWs(text, i) ==
    IF \E k \in i..Len(text) : text[k] # " "
    THEN Min({k \in i..Len(text) : text[k] # " "})
    ELSE Len(text) + 1

NoParse == [ok |-> FALSE, val |-> PyNone, next |-> 0]

Parsed(val, next) == [ok |-> TRUE, val |-> val, next |-> next]

\* the end of the run of digits that starts at i
DigitRunEnd(text, i) ==
    IF \E k \in i..Len(text) : text[k] \notin Digits
    THEN Min({k \in i..Len(text) : text[k] \notin Digits}) - 1
    ELSE Len(text)

\* the string literal whose opening quote is at i
ParseString(text, i) ==
    IF \E k \in (i + 1)..Len(text) : text[k] = Quote
    THEN LET close == Min({k \in (i + 1)..Len(text) : text[k] = Quote})
         IN  Parsed(PyStr(SubSeq(text, i + 1, close - 1)), close + 1)
    ELSE NoParse

\* the key of a member: field names are one token
KeyOf(str) == IF Len(str.s) = 1 THEN str.s[1] ELSE "?"

\* the value of a one-element set: binds a sub-result once, as the
\* assignment to a local variable does
Only(S) == CHOOSE x \in S : TRUE

RECURSIVE ParseValue(_, _)
RECURSIVE ParseElements(_, _, _)
RECURSIVE ParseMembers(_, _, _)

\* the elements of an array after `[` or `,`
ParseElements(text, i, elems) ==
    Only({ LET j == SkipWs(text, v.next)
           IN  IF ~v.ok \/ j > Len(text) THEN NoParse
               ELSE IF text[j] = "," THEN ParseElements(text, j + 1, Append(elems, v.val))
               ELSE IF text[j] = "]" THEN Parsed(PyListOf(Append(elems, v.val)), j + 1)
               ELSE NoParse
           : v \in {ParseValue(text, i)} })

\* the value of the member whose key string was parsed as key
ParseMemberValue(text, key) ==
    LET colon == SkipWs(text, key.next)
    IN  IF key.ok /\ colon <= Len(text) /\ text[colon] = ":"
        THEN ParseValue(text, colon + 1) ELSE NoParse

\* the key string of the member that starts at or after i
ParseKey(text, i) ==
    LET j == SkipWs(text, i)
    IN  IF j <= Len(text) /\ text[j] = Quote THEN ParseString(text, j) ELSE NoParse

\* the members of an object after `{` or `,`; a repeated key keeps its
\* last value
ParseMembers(text, i, d) ==
    Only({ Only({ LET k == SkipWs(text, v.next)
                  IN  IF ~v.ok \/ k > Len(text) THEN NoParse
                      ELSE IF text[k] = ","
                      THEN ParseMembers(text, k + 1, (KeyOf(key.val) :> v.val) @@ d)
                      ELSE IF text[k] = "}"
                      THEN Parsed(PyDict((KeyOf(key.val) :> v.val) @@ d), k + 1)
                      ELSE NoParse
                  : v \in {ParseMemberValue(text, key)} })
           : key \in {ParseKey(text, i)} })

ParseValue(text, i) ==
    Only({ IF j > Len(text) THEN NoParse
           ELSE CASE text[j] = "null" -> Parsed(PyNone, j + 1)
                  [] text[j] \in Digits ->
                       Parsed(PyInt(DigitsValue(SubSeq(text, j, DigitRunEnd(text, j)))),
                              DigitRunEnd(text, j) + 1)
                  [] text[j] = Quote -> ParseString(text, j)
                  [] text[j] = "[" ->
                       IF SkipWs(text, j + 1) <= Len(text) /\ text[SkipWs(text, j + 1)] = "]"
                       THEN Parsed(PyListOf(<<>>), SkipWs(text, j + 1) + 1)
                       ELSE ParseElements(text, j + 1, <<>>)
                  [] text[j] = "{" ->
                       IF SkipWs(text, j + 1) <= Len(text) /\ text[SkipWs(text, j + 1)] = "}"
                       THEN Parsed(PyDict(<<>>), SkipWs(text, j + 1) + 1)
                       ELSE ParseMembers(text, j + 1, <<>>)
                  [] OTHER -> NoParse
           : j \in {SkipWs(text, i)} })

\* the value of a text that is bound
ParseText(text) ==
    Only({ IF v.ok /\ SkipWs(text, v.next) > Len(text) THEN Ok(v.val)
           ELSE Raise("JSONDecodeError")
           : v \in {ParseValue(text, 1)} })

\* json.loads(text)
json_loads(text) == Only({ParseText(t) : t \in {text}})

\* the first n of parts, joined by ', '
RECURSIVE JoinFirst(_, _)
JoinFirst(parts, n) ==
    IF n = 0 THEN <<>>
    ELSE IF n = 1 THEN parts[1]
    ELSE JoinFirst(parts, n - 1) \o <<",", " ">> \o parts[n]

\* ', '.join(parts), each part a text
JoinComma(parts) == Only({JoinFirst(p, Len(p)) : p \in {parts}})

RECURSIVE json_dumps(_, _)
\* json.dumps(value); keys gives the order of the keys of a dict
json_dumps(value, keys) ==
    CASE value.t = "None" -> <<"null">>
      [] value.t = "int" -> IntToStr(value.n)
      [] value.t = "str" -> <<Quote>> \o value.s \o <<Quote>>
      [] value.t = "list" ->
            <<"[">> \o JoinComma([i \in 1..Len(value.elems) |->
                                     json_dumps(value.elems[i], keys)]) \o <<"]">>
      [] value.t = "dict" ->
            LET present == SelectSeq(keys, LAMBDA k : k \in DOMAIN value.d)
            IN  <<"{">> \o JoinComma([i \in 1..Len(present) |->
                                        <<Quote, present[i], Quote, ":", " ">>
                                            \o json_dumps(value.d[present[i]], keys)])
                    \o <<"}">>

\* base64 of each token of the texts of this model
B64Code ==
    "{" :> "ew==" @@ "}" :> "fQ==" @@ "[" :> "Ww==" @@ "]" :> "XQ==" @@
        ":" :> "Og==" @@ "," :> "LA==" @@ "\"" :> "Ig==" @@ " " :> "IA==" @@
        "null" :> "bnVsbA==" @@ "0" :> "MA==" @@ "1" :> "MQ==" @@ "2" :> "Mg==" @@
        "3" :> "Mw==" @@ "4" :> "NA==" @@ "5" :> "NQ==" @@ "6" :> "Ng==" @@
        "7" :> "Nw==" @@ "8" :> "OA==" @@ "9" :> "OQ==" @@ "A" :> "QQ==" @@
        "b" :> "Yg==" @@ "invoice_no" :> "aW52b2ljZV9ubw==" @@
        "invoice_date" :> "aW52b2ljZV9kYXRl" @@ "to" :> "dG8=" @@
        "items" :> "aXRlbXM=" @@ "taxable_amount" :> "dGF4YWJsZV9hbW91bnQ=" @@
        "total" :> "dG90YWw=" @@ "cgst" :> "Y2dzdA==" @@ "sgst" :> "c2dzdA==" @@
        "name" :> "bmFtZQ==" @@ "amount" :> "YW1vdW50" @@ "%PDF" :> "JVBERg==" @@ "-" :> "LQ=="

\* the base64 of the byte 0xFF, which is not UTF-8
B64InvalidUtf8 == "/w=="

\* characters outside the base64 alphabet, which b64decode discards
NotBase64 == {"{", "}", "[", "]", ":", ",", Quote, " ", "!"}

\* base64.b64encode(data).decode('utf-8')
b64encode(data) == [i \in 1..Len(data) |-> B64Code[data[i]]]

IsB64Code(tok) == \E plain \in DOMAIN B64Code : B64Code[plain] = tok

B64Plain(tok) == CHOOSE plain \in DOMAIN B64Code : B64Code[plain] = tok

\* base64.b64decode(body).decode('utf-8'): junk is what the decoder makes
\* of characters that are in the alphabet but are no encoding of this model
b64decode_utf8(body, junk) ==
    LET kept == SelectSeq(body, LAMBDA tok : tok \notin NotBase64)
    IN  IF \E i \in 1..Len(kept) : ~IsB64Code(kept[i]) /\ kept[i] # B64InvalidUtf8
        THEN CASE junk = "padding" -> Raise("binascii.Error")
               [] junk = "bytes" -> Raise("UnicodeDecodeError")
               [] OTHER -> Ok(<<"?">>)
        ELSE IF \E i \in 1..Len(kept) : kept[i] = B64InvalidUtf8
        THEN Raise("UnicodeDecodeError")
        ELSE Ok([i \in 1..Len(kept) |-> B64Plain(kept[i])])

(***************************************************************************)
(* lambda_function.lambda_handler                                          *)
(***************************************************************************)
\* line 60: json.dumps(event) raises TypeError for a value it cannot
\* serialise
Serializable(event) ==
    /\ event.t # "object"
    /\ event.t = "dict" => \A k \in DOMAIN event.d : event.d[k].t # "object"

\* key in container: a key of a dict, an element of a list, a part of a
\* str; None and a number raise TypeError
Contains(container, key) ==
    CASE container.t = "dict" -> Ok(key \in DOMAIN container.d)
      [] container.t = "str" ->
            Ok(\E i \in 1..Len(container.s) : container.s[i] = key)
      [] container.t = "list" ->
            Ok(container # PyList
                /\ \E i \in 1..Len(container.elems) : container.elems[i] = PyStr(<<key>>))
      [] OTHER -> Raise("TypeError")

\* lines 69-73: the body, base64-decoded when the event says so and the
\* body is a str
DecodedBody(event, junk) ==
    LET body == event.d.body
    IN  IF Truthy(Get(Field(event.d, "isBase64Encoded"), PyBool(FALSE))) /\ body.t = "str"
        THEN LET text == b64decode_utf8(body.s, junk)
             IN  IF text.exc # "none" THEN text ELSE Ok(PyStr(text.val))
        ELSE Ok(body)

\* the `import base64` of line 71 has run.  Being inside the function it
\* makes base64 a local name of lambda_handler, unbound until then
Base64Imported(event) ==
    /\ event.t = "dict"
    /\ "body" \in DOMAIN event.d
    /\ Truthy(Get(Field(event.d, "isBase64Encoded"), PyBool(FALSE)))
    /\ event.d.body.t = "str"

\* lines 58-82: the record the event carries
ParseEvent(event, junk) ==
    IF ~Serializable(event) THEN Raise("TypeError")
    ELSE LET has_body == Contains(event, "body")
         IN  IF has_body.exc # "none" THEN has_body
             ELSE IF ~has_body.val THEN Ok(event)
             ELSE IF event.t # "dict" THEN Raise("TypeError")
             ELSE LET body == DecodedBody(event, junk)
                  IN  IF body.exc # "none" THEN body
                      ELSE IF body.val.t = "str" /\ body.val.s # <<>>
                           THEN json_loads(body.val.s)
                           ELSE body

required_fields ==
    <<"invoice_no", "invoice_date", "to", "items", "taxable_amount", "total">>

\* line 88 keeping only the first absent field
missing_fields_FirstOnly(invoice_data) ==
    IF Contains(invoice_data, required_fields[1]).exc # "none" THEN Raise("TypeError")
    ELSE LET all == SelectSeq(required_fields,
                              LAMBDA field : ~Contains(invoice_data, field).val)
         IN  Ok(IF all = <<>> THEN all ELSE <<all[1]>>)

\* line 88: [field for field in required_fields if field not in invoice_data]
missing_fields(invoice_data) ==
    IF Contains(invoice_data, required_fields[1]).exc # "none" THEN Raise("TypeError")
    ELSE Ok(SelectSeq(required_fields, LAMBDA field : ~Contains(invoice_data, field).val))

\* the keys of the response bodies, in the order they are written
ResponseKeys == <<"error", "details">>

\* lines 91-96
MissingFieldsResponse(missing) ==
    [ statusCode |-> 400,
      body |-> json_dumps(PyDict([error |-> PyStr(<<"Missing required fields: ">>
                    \o JoinComma([i \in 1..Len(missing) |-> <<missing[i]>>]))]),
                          ResponseKeys) ]

\* lines 121-127; details is str(e), here the name of the exception
InvalidJsonResponse(e) ==
    [ statusCode |-> 400,
      body |-> json_dumps(PyDict([error |-> PyStr(<<"Invalid JSON format">>),
                                  details |-> PyStr(<<e>>)]), ResponseKeys) ]

\* lines 130-136
InternalErrorResponse(e) ==
    [ statusCode |-> 500,
      body |-> json_dumps(PyDict([error |-> PyStr(<<"Internal server error">>),
                                  details |-> PyStr(<<e>>)]), ResponseKeys) ]

\* the document: its header bytes and the invoice total of the footer
PdfBytes(footer) == <<"%PDF">> \o footer.invoice_total

\* lines 343-354 for the record _transform_input returned
BuildDocument(data) ==
    IF data.exc # "none" THEN data
    ELSE LET footer == _build_footer(data.val)
             words == _build_amount_in_words(data.val)
         IN  IF footer.exc # "none" THEN footer
             ELSE IF words.exc # "none" THEN words
             ELSE Ok(PdfBytes(footer.val))

\* generate_invoice(invoice_data) with output_path None, for amounts whose
\* sum is exact in binary
generate_invoice(self, invoice_data) ==
    IF invoice_data.t # "dict" THEN Raise("AttributeError")
    ELSE Only({BuildDocument(data) : data \in {_transform_input(self, invoice_data.d, 0)}})

\* lines 103-118
PdfResponse(invoice_data, pdf_bytes) ==
    LET invoice_number == Get(Field(invoice_data.d, "invoice_no"), PyStr(<<"unknown">>))
        filename == <<"invoice_">> \o PyStrOf(invoice_number) \o <<".pdf">>
    IN  [ statusCode |-> 200,
          headers |-> ("Content-Type" :> <<"application/pdf">>)
                        @@ ("Content-Disposition" :> <<"attachment; filename=">> \o filename),
          body |-> b64encode(pdf_bytes),
          isBase64Encoded |-> TRUE ]

\* the classes `except Exception` catches
ExceptionSubclasses ==
    { "TypeError", "AttributeError", "ValueError", "OverflowError", "IndexError",
      "KeyError", "binascii.Error", "UnicodeDecodeError", "JSONDecodeError",
      "UnboundLocalError" }

\* the handlers without the `except Exception` clause of lines 129-136
Handle_JsonOnly(e) ==
    IF e = "JSONDecodeError" THEN Ok(InvalidJsonResponse(e)) ELSE Raise(e)

\* lines 120-136: the except clauses
Handle(e) ==
    IF e = "JSONDecodeError" THEN Ok(InvalidJsonResponse(e))
    ELSE IF e \in ExceptionSubclasses THEN Ok(InternalErrorResponse(e))
    ELSE Raise(e)

\* lines 84-118 once invoice_data is bound, with the except clauses
Respond(event, invoice_data) ==
    IF invoice_data.exc # "none" THEN Handle(invoice_data.exc)
    ELSE LET missing == missing_fields(invoice_data.val)
         IN  IF missing.exc # "none" THEN Handle(missing.exc)
             ELSE IF missing.val # <<>> THEN Ok(MissingFieldsResponse(missing.val))
             ELSE LET pdf_bytes == generate_invoice(__init__(PyNone), invoice_data.val)
                  IN  IF pdf_bytes.exc # "none" THEN Handle(pdf_bytes.exc)
                      ELSE IF ~Base64Imported(event) THEN Handle("UnboundLocalError")
                      ELSE Ok(PdfResponse(invoice_data.val, pdf_bytes.val))

\* lambda_handler(event, context): invoice_data is computed once, then used
lambda_handler(event, junk) ==
    CHOOSE response \in {Respond(event, invoice_data) :
                            invoice_data \in {ParseEvent(event, junk)}} : TRUE

(***************************************************************************)
(* Events                                                                  *)
(***************************************************************************)
\* a record with every required field
BaseRecord ==
    [ invoice_no |-> PyStr(<<"1", "3", "4">>),
      invoice_date |-> PyStr(<<"A">>),
      to |-> PyStr(<<"A", ",", " ", "b">>),
      items |-> PyListOf(<<PyDict([name |-> PyStr(<<"A">>), amount |-> PyStr(<<"5">>)])>>),
      taxable_amount |-> PyStr(<<"1", "0", "0">>),
      cgst |-> PyStr(<<"9">>),
      total |-> PyStr(<<"1", "1", "8">>) ]

\* the record without the given keys
Without(record, keys) == [k \in DOMAIN record \ keys |-> record[k]]

RequiredSet == {required_fields[i] : i \in 1..Len(required_fields)}

\* records that lack some of the required fields, and complete records
\* that generate_invoice cannot process or that carry other types
RecordInputs ==
    {Without(BaseRecord, keys) : keys \in SUBSET RequiredSet}
        \cup { [BaseRecord EXCEPT !.invoice_no = PyInt(7)],
               [BaseRecord EXCEPT !.invoice_no = PyNone],
               [BaseRecord EXCEPT !.to = PyNone],
               [BaseRecord EXCEPT !.items = PyNone],
               [BaseRecord EXCEPT !.total = PyListOf(<<PyInt(1)>>)],
               [BaseRecord EXCEPT !.taxable_amount = PyStr(<<"-", "1", "0", "0">>),
                                  !.total = PyStr(<<"0">>)] }

\* the order json.dumps writes the keys of the records in
RecordKeys ==
    <<"invoice_no", "invoice_date", "to", "items", "taxable_amount", "cgst", "total",
      "name", "amount">>

JsonOf(record) == json_dumps(PyDict(record), RecordKeys)

\* texts that are not the JSON of an object
MalformedTexts ==
    { <<"{">>, <<"{", Quote, "to", Quote, "}">>, <<"{", "}", "}">>,
      JsonOf(BaseRecord) \o <<"A">>, SubSeq(JsonOf(BaseRecord), 1, 9),
      <<"[", "]">>, <<"1">>, <<"null">>, <<Quote, "A", Quote>>,
      <<Quote, "invoice_no", "invoice_date", "to", "items", "taxable_amount", "total", Quote>>,
      <<"[", Quote, "invoice_no", Quote, ",", Quote, "total", Quote, "]">> }

BodyInputs ==
    {PyDict(r) : r \in RecordInputs}
        \cup {PyStr(JsonOf(r)) : r \in RecordInputs}
        \cup {PyStr(text) : text \in MalformedTexts}
        \cup {PyNone, PyStr(<<>>), PyInt(1), PyListOf(<<>>), PyObject}

EncodedBodyInputs ==
    {PyStr(b64encode(JsonOf(r))) : r \in RecordInputs}
        \cup {PyStr(b64encode(text)) : text \in MalformedTexts}
        \cup {PyStr(<<"!">>), PyStr(<<B64InvalidUtf8>>), PyStr(JsonOf(BaseRecord)),
              PyDict(BaseRecord), PyNone}

EventInputs ==
    {PyDict(r) : r \in RecordInputs}
        \cup {PyDict([body |-> b]) : b \in BodyInputs}
        \cup {PyDict([body |-> b, isBase64Encoded |-> PyBool(FALSE)]) : b \in BodyInputs}
        \cup {PyDict([body |-> b, isBase64Encoded |-> PyBool(TRUE)]) : b \in EncodedBodyInputs}
        \cup { PyNone, PyInt(1), PyStr(<<"body">>), PyStr(<<"A">>), PyListOf(<<>>),
               PyListOf(<<PyStr(<<"body">>)>>), PyObject }

\* what b64decode makes of text that is no encoding
JunkInputs == {"padding", "bytes", "text"}

InitLambda ==
    /\ pc = "lambda_handler"
    /\ args \in [event : EventInputs, junk : JunkInputs]
    /\ args.junk # "padding" => args.event = PyDict([body |-> PyStr(JsonOf(BaseRecord)),
                                                     isBase64Encoded |-> PyBool(TRUE)])
    /\ ret = Ok(<<>>)
    /\ transformed_data = PyNone
    /\ story = <<>>
    /\ generator = PyNone

CallLambdaHandler ==
    /\ pc = "lambda_handler"
    /\ ret' = lambda_handler(args.event, args.junk)
    /\ pc' = "done"
    /\ UNCHANGED <<args, transformed_data, story, generator>>

SpecLambda == InitLambda /\ [][CallLambdaHandler]_vars

(***************************************************************************)
(* Claims about lambda_handler                                             *)
(***************************************************************************)
Returned == pc = "done" /\ ret.exc = "none"

\* the error text of a 400 or 500 response, read back from its JSON body
ErrorOf(response) == json_loads(response.body).val.d.error.s

\* the record lambda_handler parsed from the event
ParsedRecord == ParseEvent(args.event, args.junk)

HasParsedRecord == ParsedRecord.exc = "none" /\ ParsedRecord.val.t = "dict"

\* the required keys the parsed record lacks
Absent == {field \in RequiredSet : field \notin DOMAIN ParsedRecord.val.d}

IndexOf(field) == CHOOSE i \in 1..Len(required_fields) : required_fields[i] = field

\* the required keys an error text names, in the order it names them
NamedFields(error) == SelectSeq(error, LAMBDA tok : tok \in RequiredSet)

\* C14: a parsed record lacking required keys gives a 400 response whose
\* error lists every absent required key in the order of the required
\* list, and no invoice; a 200 response needs all six keys
C14_MissingFields ==
    /\ (pc = "done" /\ HasParsedRecord /\ Absent # {}) =>
          /\ ret.exc = "none"
          /\ ret.val.statusCode = 400
          /\ DOMAIN ret.val = {"statusCode", "body"}
          /\ ErrorOf(ret.val)[1] = "Missing required fields: "
          /\ LET named == NamedFields(ErrorOf(ret.val))
             IN  /\ {named[i] : i \in 1..Len(named)} = Absent
                 /\ Len(named) = Cardinality(Absent)
                 /\ \A i, j \in 1..Len(named) : i < j => IndexOf(named[i]) < IndexOf(named[j])
                 /\ Len(ErrorOf(ret.val)) = 3 * Len(named) - 1
          /\ Absent = {"total", "items"}
                => ErrorOf(ret.val) = <<"Missing required fields: ", "items", ",", " ", "total">>
    /\ (Returned /\ ret.val.statusCode = 200) => HasParsedRecord /\ Absent = {}

\* a JSON body without items and total
C14_Witness ==
    /\ Returned
    /\ args.event = PyDict([body |-> PyStr(JsonOf(Without(BaseRecord, {"total", "items"})))])
    /\ ret.val.statusCode = 400
    /\ ErrorOf(ret.val) = <<"Missing required fields: ", "items", ",", " ", "total">>

\* a body that is no structured record: null, invalid JSON text, JSON of
\* something other than an object, or base64 that does not decode to text
MalformedPayload ==
    /\ args.event.t = "dict" /\ "body" \in DOMAIN args.event.d
    /\ \/ args.event.d.body = PyNone
       \/ /\ args.event.d.body.t = "str"
          /\ \/ /\ ~Base64Imported(args.event)
                /\ args.event.d.body.s \in MalformedTexts
             \/ /\ Base64Imported(args.event)
                /\ \/ args.event.d.body.s = <<B64InvalidUtf8>>
                   \/ \E text \in MalformedTexts : args.event.d.body.s = b64encode(text)

\* C15: every malformed request payload is reported as the 'Invalid JSON
\* format' error, never as missing fields or as the internal error
C15_MalformedIsInvalidJson ==
    (pc = "done" /\ MalformedPayload) =>
        /\ ret.exc = "none"
        /\ ret.val.statusCode = 400
        /\ ErrorOf(ret.val) = <<"Invalid JSON format">>

\* normalization or document construction failed: the event could not be
\* read for a reason other than its JSON, or generate_invoice raised
OtherFailure ==
    \/ ParsedRecord.exc \notin {"none", "JSONDecodeError"}
    \/ /\ ParsedRecord.exc = "none"
       /\ missing_fields(ParsedRecord.val).exc # "none"
    \/ /\ ParsedRecord.exc = "none"
       /\ missing_fields(ParsedRecord.val) = Ok(<<>>)
       /\ generate_invoice(__init__(PyNone), ParsedRecord.val).exc # "none"

\* C16: no exception escapes lambda_handler: every event gets a response
\* with statusCode 200, 400 or 500, and a failure that is neither missing
\* fields nor the JSON format gets the 500 'Internal server error'
C16_NoEscape ==
    pc = "done" =>
        /\ ret.exc = "none"
        /\ ret.val.statusCode \in {200, 400, 500}
        /\ OtherFailure => /\ ret.val.statusCode = 500
                           /\ ErrorOf(ret.val) = <<"Internal server error">>
        /\ ret.val.statusCode = 400
              => ErrorOf(ret.val) = <<"Invalid JSON format">>
                    \/ ErrorOf(ret.val)[1] = "Missing required fields: "

\* a complete record whose 'to' is null: _parse_customer_info raises
\* AttributeError and the response is the generic 500
C16_Witness ==
    /\ Returned
    /\ args.event = PyDict([body |-> PyDict([BaseRecord EXCEPT !.to = PyNone])])
    /\ generate_invoice(__init__(PyNone), ParsedRecord.val) = Raise("AttributeError")
    /\ ret.val.statusCode = 500
    /\ ErrorOf(ret.val) = <<"Internal server error">>

\* the record is complete and generate_invoice returns the document
Success ==
    /\ HasParsedRecord
    /\ Absent = {}
    /\ generate_invoice(__init__(PyNone), ParsedRecord.val).exc = "none"

\* C17: on success the response is 200 with isBase64Encoded true, the
\* base64 of the PDF as body, Content-Type application/pdf and the file
\* name invoice_<invoice_no>.pdf, whether the record came from a JSON body,
\* a base64 body, a dict body or the event itself
C17_SuccessResponse ==
    (pc = "done" /\ Success) =>
        /\ ret.exc = "none"
        /\ ret.val.statusCode = 200
        /\ ret.val.isBase64Encoded = TRUE
        /\ ret.val.headers["Content-Type"] = <<"application/pdf">>
        /\ ret.val.headers["Content-Disposition"]
              = <<"attachment; filename=", "invoice_">>
                    \o PyStrOf(ParsedRecord.val.d.invoice_no) \o <<".pdf">>
        /\ b64decode_utf8(ret.val.body, "padding")
              = Ok(generate_invoice(__init__(PyNone), ParsedRecord.val).val)

(***************************************************************************)
(* Claims about the numeric fields of the raw record                       *)
(***************************************************************************)
NumericFields == {"taxable_amount", "cgst", "sgst", "igst_rate", "total"}

\* each numeric field is a string, an int, a float, empty or absent
LooselyTyped(invoice_data) ==
    \A field \in NumericFields :
        Field(invoice_data, field).t \in {"str", "int", "float", "absent"}

\* C23: for a raw record whose numeric fields are each a string (numeric or
\* malformed, "nan" and "inf" included), an int, a float, empty or absent,
\* _transform_input followed by _build_footer raises nothing
C23_NeverFails ==
    LooselyTyped(args.invoice_data) =>
        /\ pc = "transform" => _transform_input(generator, args.invoice_data, args.err).exc = "none"
        /\ pc = "footer" => _build_footer(transformed_data).exc = "none"
        /\ ~(pc = "raised" /\ story = <<>>)

(***************************************************************************)
(* Claims about the rounded total                                          *)
(***************************************************************************)
\* a canonical record has been returned by _transform_input
Transformed == pc \in {"footer", "amount_in_words", "done"} \/ (pc = "raised" /\ story # <<>>)

\* taxable + cgst_amount + sgst_amount of the canonical record, in units of
\* 1/Scale
Subtotal ==
    transformed_data.tax_summary.taxable_amount.f.v
        + transformed_data.tax_summary.cgst_amount.f.v
        + transformed_data.tax_summary.sgst_amount.f.v

\* the caller's total is absent or not positive
NoPositiveTotal ==
    ~FPositive(safe_float(Get(Field(args.invoice_data, "total"), PyStr(<<"0">>)), Fin(0)).val)

\* the rounded total, which is the invoice total when no positive total is
\* supplied
RoundedTotal == transformed_data.tax_summary.invoice_total.n

\* the float sum is exactly halfway between two integers
ExactlyHalfway == Subtotal % Scale = Scale \div 2 /\ args.err = 0

C24_WitnessOdd ==
    /\ Transformed /\ NoPositiveTotal /\ ExactlyHalfway
    /\ Subtotal = Scale + Scale \div 2
    /\ RoundedTotal = 2

CompanyField(company, key) ==
    IF company.t # "dict" THEN Raise("TypeError")
    ELSE IF key \notin DOMAIN company.d THEN Raise("KeyError")
    ELSE Ok(company.d[key])

\* lines 490-542
_build_header(data) ==
    LET company == data.company
        read == [key \in {"name", "address", "mobile", "state", "gstin", "state_code"}
                    |-> CompanyField(company, key)]
        raised == FirstRaise(<<read.name, read.address, read.mobile, read.state, read.gstin,
                               read.state_code>>)
    IN  IF raised.exc # "none" THEN raised
        ELSE Ok([ section |-> "header",
                  title |-> <<"Tax Invoice">>,
                  company_name |-> PyStrOf(read.name.val),
                  address |-> read.address.val,
                  mobile |-> <<"Mobile No.: ">> \o PyStrOf(read.mobile.val),
                  state |-> read.state.val,
                  gstin |-> <<"GSTIN NO: ">> \o PyStrOf(read.gstin.val),
                  state_code |-> <<"State Code: ">> \o PyStrOf(read.state_code.val) ])

\* lines 544-567
_build_invoice_info(data) ==
    Ok([ section |-> "invoice_info",
         invoice_no |-> <<"Invoice No.: ">> \o PyStrOf(data.invoice_number),
         invoice_date |-> <<"Invoice Date: ">> \o PyStrOf(data.invoice_date) ])

\* lines 569-603
_build_customer_details(data) ==
    Ok([ section |-> "customer_details",
         recipient |-> <<"Name: ">> \o PyStrOf(data.customer.name)
                          \o <<"Address: ">> \o PyStrOf(data.customer.address)
                          \o <<"GST No: ">> \o PyStrOf(data.customer.gstin),
         job |-> <<"Job Description: ">> \o PyStrOf(data.job_description)
                    \o (IF Truthy(data.event_name) THEN PyStrOf(data.event_name) ELSE <<>>) ])

\* lines 605-698: one row per item; the filler rows carry no data
_build_items_table(data) ==
    Ok([ section |-> "items_table",
         rows |-> [i \in 1..Len(data.items) |->
                     << IntToStr(i), data.items[i].description, data.items[i].hsn_code,
                        PyStrOf(data.items[i].quantity), PyStrOf(data.items[i].rate),
                        PyStrOf(data.items[i].amount) >>] ])

\* lines 814-821: a spacer only
_build_signature(data) == Ok([section |-> "signature"])

\* lines 329-351: the builders in the order generate_invoice calls them
Builders ==
    << "_build_header", "_build_invoice_info", "_build_customer_details",
       "_build_items_table", "_build_footer", "_build_amount_in_words", "_build_signature" >>

\* self.<builder>(transformed_data)
CallBuilder(builder, data) ==
    CASE builder = "_build_header" -> _build_header(data)
      [] builder = "_build_invoice_info" -> _build_invoice_info(data)
      [] builder = "_build_customer_details" -> _build_customer_details(data)
      [] builder = "_build_items_table" -> _build_items_table(data)
      [] builder = "_build_footer" -> _build_footer(data)
      [] builder = "_build_amount_in_words" -> _build_amount_in_words(data)
      [] builder = "_build_signature" -> _build_signature(data)

(***************************************************************************)
(* Concurrent calls of generate_invoice on one InvoiceGenerator.  Each     *)
(* variable holds one value per call; a step of a call is the call of      *)
(* _transform_input, of one builder, or of doc.build.                      *)
(***************************************************************************)
NumThreads == 2

Threads == 1..NumThreads

\* the raw records of the calls: amounts exact in binary
ThreadInputs ==
    { BaseRecord,
      [BaseRecord EXCEPT !.taxable_amount = PyStr(<<"2", ".", "5">>), !.total = PyStr(<<"0">>)],
      [BaseRecord EXCEPT !.taxable_amount = PyStr(<<"n", "a", "n">>)],
      [BaseRecord EXCEPT !.total = PyStr(<<"i", "n", "f">>)] }

\* transformed_data and story (lines 306 and 326) are local names of the
\* call: every call has a frame of its own
Frame_Shared(p) == 1

Frame(p) == p

InitThreads ==
    /\ pc = [p \in Threads |-> "transform"]
    /\ args \in [Threads -> {[invoice_data |-> d, err |-> 0] : d \in ThreadInputs}]
    /\ ret = [p \in Threads |-> Ok(<<>>)]
    /\ transformed_data = [p \in Threads |-> PyNone]
    /\ story = [p \in Threads |-> <<>>]
    /\ generator = __init__(PyNone)

\* an exception leaves the call of thread p
ThreadEscapes(p, r) ==
    /\ pc' = [pc EXCEPT ![p] = "raised"]
    /\ ret' = [ret EXCEPT ![p] = r]
    /\ UNCHANGED <<args, transformed_data, story, generator>>

\* line 306
ThreadTransform(p) ==
    /\ pc[p] = "transform"
    /\ LET r == _transform_input(generator, args[p].invoice_data, args[p].err)
       IN  IF r.exc # "none" THEN ThreadEscapes(p, r)
           ELSE /\ transformed_data' = [transformed_data EXCEPT ![Frame(p)] = r.val]
                /\ story' = [story EXCEPT ![Frame(p)] = <<>>]
                /\ pc' = [pc EXCEPT ![p] = Builders[1]]
                /\ UNCHANGED <<args, ret, generator>>

\* the step after the builder at position i
AfterBuilder(i) == IF i < Len(Builders) THEN Builders[i + 1] ELSE "doc.build"

\* a builder that clears the round_off of the record once it has read it
ThreadBuild_Clearing(p) ==
    \E i \in 1..Len(Builders) :
        /\ pc[p] = Builders[i]
        /\ LET r == CallBuilder(Builders[i], transformed_data[Frame(p)])
           IN  IF r.exc # "none" THEN ThreadEscapes(p, r)
               ELSE /\ story' = [story EXCEPT ![Frame(p)] = Append(@, r.val)]
                    /\ transformed_data' =
                          [transformed_data EXCEPT ![Frame(p)].tax_summary.round_off = PyStr(<<>>)]
                    /\ pc' = [pc EXCEPT ![p] = AfterBuilder(i)]
                    /\ UNCHANGED <<args, ret, generator>>

\* lines 329-351: story.extend(self.<builder>(transformed_data))
ThreadBuild(p) ==
    \E i \in 1..Len(Builders) :
        /\ pc[p] = Builders[i]
        /\ LET r == CallBuilder(Builders[i], transformed_data[Frame(p)])
           IN  IF r.exc # "none" THEN ThreadEscapes(p, r)
               ELSE /\ story' = [story EXCEPT ![Frame(p)] = Append(@, r.val)]
                    /\ pc' = [pc EXCEPT ![p] = AfterBuilder(i)]
                    /\ UNCHANGED <<args, ret, transformed_data, generator>>

\* lines 354-360: doc.build(story) and the bytes returned
ThreadDocBuild(p) ==
    /\ pc[p] = "doc.build"
    /\ ret' = [ret EXCEPT ![p] = Ok(PdfBytes(story[Frame(p)][5]))]
    /\ pc' = [pc EXCEPT ![p] = "done"]
    /\ UNCHANGED <<args, transformed_data, story, generator>>

NextThreads == \E p \in Threads : ThreadTransform(p) \/ ThreadBuild(p) \/ ThreadDocBuild(p)

SpecThreads == InitThreads /\ [][NextThreads]_vars

(***************************************************************************)
(* Claims about concurrent calls and about the frame of the record         *)
(***************************************************************************)
\* what _transform_input returns for the raw record of call p run alone
Alone(p) == _transform_input(__init__(PyNone), args[p].invoice_data, args[p].err)

\* what generate_invoice returns or raises for the raw record of call p
\* run alone
AloneResponse(p) == generate_invoice(__init__(PyNone), PyDict(args[p].invoice_data))

\* call p holds a canonical record
HoldsRecord(p) == pc[p] \notin {"transform", "raised"} \/ (pc[p] = "raised" /\ Alone(p).exc = "none")

\* C21: under every interleaving of concurrent calls, each call has the
\* canonical record and the response it has when run alone, two calls with
\* the same raw record have the same canonical record, and the state the
\* calls share is never written
C21_Independent ==
    /\ generator = __init__(PyNone)
    /\ \A p \in Threads :
          /\ HoldsRecord(p) =>
                /\ Alone(p).exc = "none"
                /\ transformed_data[Frame(p)] = Alone(p).val
          /\ pc[p] \in {"done", "raised"} => ret[p] = AloneResponse(p)
          /\ \A q \in Threads :
                (args[p] = args[q] /\ HoldsRecord(p) /\ HoldsRecord(q))
                    => transformed_data[Frame(p)] = transformed_data[Frame(q)]

\* two calls with different raw records, both between their builders
C21_Witness ==
    /\ pc[1] = "_build_footer"
    /\ pc[2] = "_build_items_table"
    /\ args[1].invoice_data = BaseRecord
    /\ args[2].invoice_data # BaseRecord
    /\ transformed_data[Frame(1)] = Alone(1).val
    /\ transformed_data[Frame(2)] = Alone(2).val
    /\ transformed_data[Frame(1)] # transformed_data[Frame(2)]

\* C22: the canonical record of a call is set by its _transform_input and
\* by nothing else: no builder step changes any field of it, and no step
\* changes a raw record
C22_NeverMutated ==
    /\ [](\A p \in Threads : pc[p] = "transform" => transformed_data[Frame(p)] = PyNone)
    /\ [][\A p \in Threads :
            /\ args'[p] = args[p]
            /\ pc[p] # "transform" => transformed_data'[Frame(p)] = transformed_data[Frame(p)]]_vars

\* a call that went through its seven builders with a record whose
\* round_off is not empty
C22_Witness ==
    /\ pc[1] = "done"
    /\ Len(story[Frame(1)]) = Len(Builders)
    /\ transformed_data[Frame(1)] = Alone(1).val
    /\ transformed_data[Frame(1)].tax_summary.round_off = PyFloat(Fin(Scale \div 2))

====
